---------------------------- MODULE Spec2Model ----------------------------
(* Model of the chat session store (ChatStorage) and of the streaming       *)
(* completion client (OpenAIClient.sendMessage) of Obsidian-Chat.           *)
(*                                                                          *)
(* Text is modelled as a sequence of text fragments: the identifiers, the   *)
(* separators and the stream are spelt character by character, the literals *)
(* of the code ("_Agent_", "topic_", "history.json") and the fixed parts of  *)
(* a stream frame are one fragment each.  The path templates, endsWith /    *)
(* includes / split and the line framing of the stream are computed on      *)
(* these sequences as the code computes them on strings.                    *)
EXTENDS Integers, Sequences, FiniteSets, TLC

VARIABLES
    dirs,       \* vault adapter: the set of directory paths that exist
    files,      \* vault adapter: function from file path to file content
    clock,      \* the value Date.now() returns
    result,     \* the last store operation and what it returned
    created,    \* the sessions createNewChat has returned in this process
    body,       \* sendMessage: the response body the server produces
    pos,        \* sendMessage: how much of the body the reader has handed out
    buffer,     \* sendMessage: the `buffer` local (the incomplete last line)
    calls,      \* sendMessage: the fragments passed to onChunk so far
    pc,         \* sendMessage: where the call is
    aborted,    \* sendMessage: whether the AbortSignal has fired
    outcome,    \* sendMessage: how the promise settled
    pending,    \* sendMessage: the bytes the TextDecoder holds back
    cuts,       \* history: where reads have ended ("line": inside a line,
                \* "char": inside a character)
    requests,   \* sendMessage: the number of fetch calls it has made
    response,   \* sendMessage: the status and the error text of the response
    caught,     \* sendMessage: the error that reached the catch block
    view,       \* ChatView: its fields (currentChat, isLoading, streamingMessage,
                \* abortController, isAutoNaming) and settings.activeAgentId
    heap,       \* the Chat objects of the process; a reference is an index
    tasks,      \* the handlers that wait for a promise, each with where it waits
    modal,      \* ChatHistoryModal: the Chat objects it lists, <<>> when closed
    log         \* history: the turns sent and the assistant messages appended

vars ==
    <<dirs, files, clock, result, created, body, pos, buffer, calls, pc, aborted, outcome, pending,
      cuts, requests, response, caught, view, heap, tasks, modal, log>>
storeVars == <<dirs, files, clock, result, created>>
streamVars ==
    <<body, pos, buffer, calls, pc, aborted, outcome, pending, cuts, requests, response, caught>>
viewVars == <<view, heap, tasks, modal, log>>

\* no view is open
ViewIdle ==
    /\ view = [currentChat |-> 0]
    /\ heap = <<>>
    /\ tasks = {}
    /\ modal = <<>>
    /\ log = <<>>

-----------------------------------------------------------------------------
(* Bounds of the model *)

MaxSessions == 2
MaxClock == 2
MaxCreated == 3
MaxLines == 2
Epoch == 9

-----------------------------------------------------------------------------
(* String primitives of JavaScript, on sequences of characters *)

RECURSIVE Concat(_)
Concat(ss) == IF ss = <<>> THEN <<>> ELSE Head(ss) \o Concat(Tail(ss))

startsWith(s, p) == Len(s) >= Len(p) /\ SubSeq(s, 1, Len(p)) = p

endsWith(s, p) == Len(s) >= Len(p) /\ SubSeq(s, Len(s) - Len(p) + 1, Len(s)) = p

includes(s, p) == \E i \in 1..(Len(s) - Len(p) + 1) : SubSeq(s, i, i + Len(p) - 1) = p

\* s.split(c) for a one-character separator c
RECURSIVE split(_, _)
split(s, c) ==
    IF \A i \in 1..Len(s) : s[i] # c THEN <<s>>
    ELSE LET i == CHOOSE k \in 1..Len(s) : s[k] = c /\ \A j \in 1..(k - 1) : s[j] # c
         IN  <<SubSeq(s, 1, i - 1)>> \o split(SubSeq(s, i + 1, Len(s)), c)

WhiteSpace == {" ", "\r", "\t", "\n"}

RECURSIVE trimStart(_)
trimStart(s) == IF s # <<>> /\ Head(s) \in WhiteSpace THEN trimStart(Tail(s)) ELSE s

RECURSIVE trimEnd(_)
trimEnd(s) ==
    IF s # <<>> /\ s[Len(s)] \in WhiteSpace THEN trimEnd(SubSeq(s, 1, Len(s) - 1)) ELSE s

trim(s) == trimEnd(trimStart(s))

-----------------------------------------------------------------------------
(* Storage path resolver *)

chatsDir == <<".OChat-chats">>

AgentMark == <<"_Agent_">>
TopicsName == <<"topics">>
TopicMark == <<"topic_">>
HistoryName == <<"history.json">>
DotJson == <<".json">>
DefaultAgent == <<"default">>

getAgentDir(agentId) == chatsDir \o <<"/">> \o AgentMark \o agentId \o <<"_">> \o agentId

getTopicsDir(agentId) == getAgentDir(agentId) \o <<"/">> \o TopicsName

TopicDirOf(agentId, chatId) == getTopicsDir(agentId) \o <<"/">> \o TopicMark \o chatId

getTopicDir(chat) == TopicDirOf(chat.agentId, chat.id)

getChatFilePath(chat) == getTopicDir(chat) \o <<"/">> \o HistoryName

-----------------------------------------------------------------------------
(* JSON.stringify / JSON.parse of a Chat object.                            *)
(* A JavaScript object is a function from the keys it has to their values;  *)
(* a key whose value is undefined is a key the object does not have.  The   *)
(* JSON text is a sequence of members, each a key and the tokens of its     *)
(* value; numbers are written in decimal digits, strings between quotes,    *)
(* arrays between brackets.                                                 *)

KeyOrder == <<"id", "agentId", "title", "manualTitle", "tags", "createdAt", "updatedAt", "messages">>

StringKeys == {"id", "agentId", "title"}
NumberKeys == {"createdAt", "updatedAt"}

Digits == <<"0", "1", "2", "3", "4", "5", "6", "7", "8", "9">>
DigitSet == {Digits[i] : i \in 1..Len(Digits)}
DigitValue(d) == (CHOOSE i \in 1..Len(Digits) : Digits[i] = d) - 1

RECURSIVE numberToString(_)
numberToString(n) ==
    IF n < Len(Digits) THEN <<Digits[n + 1]>>
    ELSE numberToString(n \div Len(Digits)) \o <<Digits[(n % Len(Digits)) + 1]>>

RECURSIVE stringToNumber(_)
stringToNumber(ds) ==
    IF Len(ds) = 1 THEN DigitValue(ds[1])
    ELSE stringToNumber(SubSeq(ds, 1, Len(ds) - 1)) * Len(Digits) + DigitValue(ds[Len(ds)])

Quote == "\""

EncString(s) == <<Quote>> \o s \o <<Quote>>

EncMessages(ms) ==
    <<"[">> \o Concat([i \in 1..Len(ms) |->
                         <<"{">> \o EncString(ms[i].role) \o EncString(ms[i].content) \o <<"}">>])
            \o <<"]">>

EncTags(ts) == <<"[">> \o Concat([i \in 1..Len(ts) |-> EncString(ts[i])]) \o <<"]">>

EncValue(k, v) ==
    IF k \in StringKeys THEN EncString(v)
    ELSE IF k \in NumberKeys THEN numberToString(v)
    ELSE IF k = "manualTitle" THEN <<IF v THEN "true" ELSE "false">>
    ELSE IF k = "tags" THEN EncTags(v)
    ELSE EncMessages(v)

RECURSIVE StringifyFrom(_, _)
StringifyFrom(chat, i) ==
    IF i > Len(KeyOrder) THEN <<>>
    ELSE (IF KeyOrder[i] \in DOMAIN chat
          THEN <<[k |-> KeyOrder[i], v |-> EncValue(KeyOrder[i], chat[KeyOrder[i]])]>>
          ELSE <<>>) \o StringifyFrom(chat, i + 1)

\* a serializer that writes a fixed list of fields
StringifyRequiredFields(chat) ==
    SelectSeq(StringifyFrom(chat, 1), LAMBDA m : m.k \notin {"manualTitle", "tags", "createdAt"})

JSONstringify(chat) == StringifyFrom(chat, 1)

\* the index of the quote that closes the string opened at toks[1]; 0 if none
ClosingQuote(toks) ==
    IF \E i \in 2..Len(toks) : toks[i] = Quote
    THEN CHOOSE i \in 2..Len(toks) : toks[i] = Quote /\ \A j \in 2..(i - 1) : toks[j] # Quote
    ELSE 0

\* a sequence of quoted strings
RECURSIVE DecStrings(_)
DecStrings(toks) ==
    IF toks = <<>> THEN [ok |-> TRUE, val |-> <<>>]
    ELSE IF Head(toks) # Quote \/ ClosingQuote(toks) = 0 THEN [ok |-> FALSE, val |-> <<>>]
    ELSE LET c == ClosingQuote(toks)
             rest == DecStrings(SubSeq(toks, c + 1, Len(toks)))
         IN  [ok |-> rest.ok, val |-> <<SubSeq(toks, 2, c - 1)>> \o rest.val]

\* a sequence of { "role" "content" } objects
RECURSIVE DecMessages(_)
DecMessages(toks) ==
    IF toks = <<>> THEN [ok |-> TRUE, val |-> <<>>]
    ELSE IF Head(toks) # "{" \/ \A i \in 1..Len(toks) : toks[i] # "}"
         THEN [ok |-> FALSE, val |-> <<>>]
    ELSE LET e == CHOOSE i \in 1..Len(toks) : toks[i] = "}" /\ \A j \in 1..(i - 1) : toks[j] # "}"
             flds == DecStrings(SubSeq(toks, 2, e - 1))
             rest == DecMessages(SubSeq(toks, e + 1, Len(toks)))
         IN  IF flds.ok /\ Len(flds.val) = 2
             THEN [ok |-> rest.ok,
                   val |-> <<[role |-> flds.val[1], content |-> flds.val[2]]>> \o rest.val]
             ELSE [ok |-> FALSE, val |-> <<>>]

DecValue(toks) ==
    IF toks = <<>> THEN [ok |-> FALSE, val |-> <<>>]
    ELSE IF Head(toks) = Quote
         THEN (IF Len(toks) >= 2 /\ ClosingQuote(toks) = Len(toks)
               THEN [ok |-> TRUE, val |-> SubSeq(toks, 2, Len(toks) - 1)]
               ELSE [ok |-> FALSE, val |-> <<>>])
    ELSE IF \A i \in 1..Len(toks) : toks[i] \in DigitSet
         THEN [ok |-> TRUE, val |-> stringToNumber(toks)]
    ELSE IF toks = <<"true">> THEN [ok |-> TRUE, val |-> TRUE]
    ELSE IF toks = <<"false">> THEN [ok |-> TRUE, val |-> FALSE]
    ELSE IF Head(toks) = "[" /\ Len(toks) >= 2 /\ toks[Len(toks)] = "]"
         THEN (LET inner == SubSeq(toks, 2, Len(toks) - 1)
               IN  IF inner # <<>> /\ Head(inner) = "{" THEN DecMessages(inner)
                   ELSE DecStrings(inner))
    ELSE [ok |-> FALSE, val |-> <<>>]

\* [ok |-> FALSE] stands for the SyntaxError JSON.parse throws
JSONparse(data) ==
    LET keys == {data[i].k : i \in 1..Len(data)}
        member(k) == data[CHOOSE i \in 1..Len(data) : data[i].k = k]
    IN  IF \A i \in 1..Len(data) : DecValue(data[i].v).ok
        THEN [ok |-> TRUE, val |-> [k \in keys |-> DecValue(member(k).v).val]]
        ELSE [ok |-> FALSE, val |-> <<>>]

\* chat.agentId = v
WithField(chat, key, v) ==
    [k \in DOMAIN chat \cup {key} |-> IF k = key THEN v ELSE chat[k]]

\* the value of a string property, <<>> (falsy, like undefined) when absent
Prop(chat, key) == IF key \in DOMAIN chat THEN chat[key] ELSE <<>>

-----------------------------------------------------------------------------
(* The vault adapter: a file system is a record [dirs, files]               *)

NoSlash(s) == \A i \in 1..Len(s) : s[i] # "/"

\* p is an immediate child of directory d
ChildOf(p, d) ==
    /\ startsWith(p, d \o <<"/">>)
    /\ Len(p) > Len(d) + 1
    /\ NoSlash(SubSeq(p, Len(d) + 2, Len(p)))

Under(p, d) == startsWith(p, d \o <<"/">>)

exists(fs, p) == p \in fs.dirs \/ p \in DOMAIN fs.files

mkdir(fs, p) == [fs EXCEPT !.dirs = @ \cup {p}]

write(fs, p, data) ==
    [fs EXCEPT !.files = [q \in DOMAIN fs.files \cup {p} |-> IF q = p THEN data ELSE fs.files[q]]]

remove(fs, p) == [fs EXCEPT !.files = [q \in DOMAIN fs.files \ {p} |-> fs.files[q]]]

\* adapter.rmdir(p, true)
rmdir(fs, p) ==
    [dirs |-> {d \in fs.dirs : d # p /\ ~Under(d, p)},
     files |-> [q \in {f \in DOMAIN fs.files : ~Under(f, p)} |-> fs.files[q]]]

listFiles(fs, d) == {f \in DOMAIN fs.files : ChildOf(f, d)}

listFolders(fs, d) == {f \in fs.dirs : ChildOf(f, d)}

\* the orders in which the adapter may enumerate a set of entries
Orderings(S) ==
    {seq \in [1..Cardinality(S) -> S] : \A i, j \in 1..Cardinality(S) : i # j => seq[i] # seq[j]}

-----------------------------------------------------------------------------
(* ChatStorage *)

ensureAgentDirs(fs, agentId) ==
    LET fs1 == IF ~exists(fs, getAgentDir(agentId)) THEN mkdir(fs, getAgentDir(agentId)) ELSE fs
    IN  IF ~exists(fs1, getTopicsDir(agentId)) THEN mkdir(fs1, getTopicsDir(agentId)) ELSE fs1

saveChat(fs, chat) ==
    LET fs1 == ensureAgentDirs(fs, chat.agentId)
        fs2 == IF ~exists(fs1, getTopicDir(chat)) THEN mkdir(fs1, getTopicDir(chat)) ELSE fs1
    IN  write(fs2, getChatFilePath(chat), JSONstringify(chat))

Null == <<>>

\* read a file and JSON.parse it: <<chat>>, or Null where the code's catch returns null
ReadChat(fs, filePath) ==
    LET parsed == JSONparse(fs.files[filePath])
    IN  IF parsed.ok THEN <<parsed.val>> ELSE Null

\* the history.json files the directory search of loadChat can reach for chatId
SearchHits(fs, chatId) ==
    {topicDir \o <<"/">> \o HistoryName :
        topicDir \in {t \in UNION {listFolders(fs, dir \o <<"/">> \o TopicsName) :
                                     dir \in {d \in listFolders(fs, chatsDir) :
                                                /\ includes(d, AgentMark)
                                                /\ exists(fs, d \o <<"/">> \o TopicsName)}} :
                        /\ includes(t, TopicMark \o chatId)
                        /\ exists(fs, t \o <<"/">> \o HistoryName)}}

\* the values loadChat may return; the first hit in the adapter's enumeration order
\* wins, and that order is the adapter's, so every hit may be the first
loadChat(fs, chatId, agentId) ==
    LET filePath == getTopicsDir(agentId) \o <<"/">> \o TopicMark \o chatId
                        \o <<"/">> \o HistoryName
    IN  IF agentId # <<>> /\ exists(fs, filePath) THEN {ReadChat(fs, filePath)}
        ELSE IF SearchHits(fs, chatId) = {} THEN {Null}
        ELSE {ReadChat(fs, f) : f \in SearchHits(fs, chatId)}

\* a comparator with its operands swapped
compareAscending(a, b) == a.updatedAt - b.updatedAt

\* the comparator of chats.sort: (a, b) => b.updatedAt - a.updatedAt
compareChats(a, b) == b.updatedAt - a.updatedAt

\* Array.prototype.sort with that comparator (a stable sort)
RECURSIVE insertSorted(_, _)
insertSorted(out, x) ==
    IF out = <<>> THEN <<x>>
    ELSE IF compareChats(out[Len(out)], x) > 0
         THEN insertSorted(SubSeq(out, 1, Len(out) - 1), x) \o <<out[Len(out)]>>
         ELSE out \o <<x>>

RECURSIVE sortChats(_)
sortChats(chats) ==
    IF chats = <<>> THEN <<>>
    ELSE insertSorted(sortChats(SubSeq(chats, 1, Len(chats) - 1)), chats[Len(chats)])

\* a loop that a file that does not parse ends
RECURSIVE pushChatsUntilCorrupt(_, _)
pushChatsUntilCorrupt(fs, fileSeq) ==
    IF fileSeq = <<>> \/ ReadChat(fs, Head(fileSeq)) = Null THEN <<>>
    ELSE ReadChat(fs, Head(fileSeq)) \o pushChatsUntilCorrupt(fs, Tail(fileSeq))

\* chats.push(chat) for every file of the sequence that parses
RECURSIVE pushChats(_, _)
pushChats(fs, fileSeq) ==
    IF fileSeq = <<>> THEN <<>>
    ELSE ReadChat(fs, Head(fileSeq)) \o pushChats(fs, Tail(fileSeq))

\* the topics directories loadAllChats walks
AgentTopicsDirs(fs) ==
    {d \o <<"/">> \o TopicsName :
        d \in {a \in listFolders(fs, chatsDir) :
                 includes(a, AgentMark) /\ exists(fs, a \o <<"/">> \o TopicsName)}}

\* the history.json files below a topics directory
HistoryFilesIn(fs, topicsDir) ==
    {t \o <<"/">> \o HistoryName :
        t \in {u \in listFolders(fs, topicsDir) : exists(fs, u \o <<"/">> \o HistoryName)}}

\* the orders in which the nested loops may visit the files: one agent directory
\* after the other, in the adapter's order
WalkOrders(fs) ==
    LET all == UNION {HistoryFilesIn(fs, d) : d \in AgentTopicsDirs(fs)}
        home(f) == CHOOSE d \in AgentTopicsDirs(fs) : Under(f, d)
    IN  {seq \in Orderings(all) :
            \A i, j, k \in 1..Len(seq) :
                (i < j /\ j < k /\ home(seq[i]) = home(seq[k])) => home(seq[j]) = home(seq[i])}

loadAllChats(fs) == {sortChats(pushChats(fs, seq)) : seq \in WalkOrders(fs)}

\* a listing that is not scoped to the agent
getChatsOfAllAgents(fs, agentId) == loadAllChats(fs)

getChatsByAgent(fs, agentId) ==
    IF ~exists(fs, getTopicsDir(agentId)) THEN {<<>>}
    ELSE {sortChats(pushChats(fs, seq)) :
            seq \in Orderings(HistoryFilesIn(fs, getTopicsDir(agentId)))}

\* the file systems deleteChat may leave
deleteChat(fs, chatId, agentId) ==
    {IF found = Null THEN fs
     ELSE IF exists(fs, getTopicDir(found[1])) THEN rmdir(fs, getTopicDir(found[1]))
     ELSE fs : found \in loadChat(fs, chatId, agentId)}

\* a depth test that no file of the root directory passes
LegacyFilesWrongDepth(fs) ==
    {f \in listFiles(fs, chatsDir) : endsWith(f, DotJson) /\ Len(split(f, "/")) = 1}

\* the files of the old flat layout
LegacyFiles(fs) ==
    {f \in listFiles(fs, chatsDir) : endsWith(f, DotJson) /\ Len(split(f, "/")) = 2}

\* a loop body that leaves the flat file in place
migrateFileKeepingOld(fs, file) ==
    LET parsed == JSONparse(fs.files[file])
        chat == IF Prop(parsed.val, "agentId") = <<>>
                THEN WithField(parsed.val, "agentId", DefaultAgent)
                ELSE parsed.val
    IN  IF ~parsed.ok THEN fs ELSE saveChat(fs, chat)

\* one pass of the loop body of migrateOldChats
migrateFile(fs, file) ==
    LET parsed == JSONparse(fs.files[file])
        chat == IF Prop(parsed.val, "agentId") = <<>>
                THEN WithField(parsed.val, "agentId", DefaultAgent)
                ELSE parsed.val
    IN  IF ~parsed.ok THEN fs
        ELSE remove(saveChat(fs, chat), file)

RECURSIVE migrateSeq(_, _)
migrateSeq(fs, fileSeq) ==
    IF fileSeq = <<>> THEN fs
    ELSE migrateSeq(migrateFile(fs, Head(fileSeq)), Tail(fileSeq))

\* the file systems migrateOldChats may leave
migrateOldChats(fs) == {migrateSeq(fs, seq) : seq \in Orderings(LegacyFiles(fs))}

generateId(now) == numberToString(now)

NewChatTitle == <<"New Chat">>

createNewChat(agentId, now) ==
    [id |-> generateId(now), agentId |-> agentId, title |-> NewChatTitle,
     updatedAt |-> now, messages |-> <<>>]

\* saveChat of the flat layout: <root>/<id>.json
legacySaveChat(fs, chat) ==
    write(fs, chatsDir \o <<"/">> \o chat.id \o DotJson, JSONstringify(chat))

-----------------------------------------------------------------------------
(* The sessions and arguments the operations are called with *)

Agents == {<<"a">>, DefaultAgent}

\* ids of the hierarchical layout are decimal time stamps (generateId)
Ids == {numberToString(1), numberToString(12)}

\* ids of the flat layout are base-36 strings
LegacyIds == {<<"k", "1">>, <<"m">>}

UpdatedStamps == {2, 10}

Hi == [role |-> <<"user">>, content |-> <<"h", "i">>]
Yo == [role |-> <<"assistant">>, content |-> <<"y", "o">>]

\* a session as createNewChat makes it
FreshChat(id, agentId, u) ==
    [id |-> id, agentId |-> agentId, title |-> NewChatTitle, updatedAt |-> u, messages |-> <<>>]

\* a session with every field of the Chat interface
FullChat(id, agentId, u) ==
    [id |-> id, agentId |-> agentId, title |-> <<"T">>, manualTitle |-> TRUE,
     tags |-> <<<<"t", "g">>, <<"x">>>>, createdAt |-> 1, updatedAt |-> u,
     messages |-> <<Hi, Yo>>]

\* a session of a version that had no agents
AgentlessChat(id, u) ==
    [id |-> id, title |-> <<"T">>, createdAt |-> 1, updatedAt |-> u, messages |-> <<Hi>>]

Chats ==
    UNION {{FreshChat(id, a, u), FullChat(id, a, u)} : id \in Ids, a \in Agents, u \in UpdatedStamps}

LegacyChats ==
    UNION {{AgentlessChat(id, u)} \cup {FullChat(id, a, u) : a \in Agents} :
             id \in LegacyIds, u \in UpdatedStamps}

\* what an interrupted write leaves: JSON text cut off inside a string
CorruptData == <<[k |-> "id", v |-> <<Quote>>]>>

-----------------------------------------------------------------------------
(* The store as a state machine *)

FS == [dirs |-> dirs, files |-> files]

LegacyPath(id) == chatsDir \o <<"/">> \o id \o DotJson

\* every id that names a session anywhere in the store
IdInUse(id) ==
    \/ LegacyPath(id) \in DOMAIN files
    \/ \E f \in DOMAIN files : includes(f, TopicMark \o id \o <<"/">>)

StreamIdle ==
    /\ body = <<>>
    /\ pos = 0
    /\ buffer = <<>>
    /\ calls = <<>>
    /\ pc = "idle"
    /\ aborted = FALSE
    /\ outcome = "none"
    /\ pending = <<>>
    /\ cuts = {}
    /\ requests = 0
    /\ response = [status |-> 0, text |-> <<>>]
    /\ caught = [type |-> "none"]
    /\ ViewIdle

InitStore ==
    /\ dirs = {chatsDir}
    /\ files = <<>>
    /\ clock = Epoch
    /\ result = [op |-> "none"]
    /\ created = <<>>
    /\ StreamIdle

SetFS(fs) ==
    /\ dirs' = fs.dirs
    /\ files' = fs.files

SaveChat(chat) ==
    /\ \/ getChatFilePath(chat) \in DOMAIN files
       \/ Cardinality(DOMAIN files) < MaxSessions
    /\ SetFS(saveChat(FS, chat))
    /\ result' = [op |-> "saveChat", chat |-> chat]
    /\ UNCHANGED <<clock, created, streamVars, viewVars>>

\* `after` keeps the operation that completed just before this call, so that a
\* property can speak of "save, then load" and "delete, then load"
LoadChat(chatId, agentId) ==
    /\ \E val \in loadChat(FS, chatId, agentId) :
          result' = [op |-> "loadChat", chatId |-> chatId, agentId |-> agentId, val |-> val,
                     after |-> IF result.op \in {"saveChat", "deleteChat", "migrateOldChats"}
                               THEN result ELSE [op |-> "none"]]
    /\ UNCHANGED <<dirs, files, clock, created, streamVars, viewVars>>

LoadAllChats ==
    /\ \E val \in loadAllChats(FS) : result' = [op |-> "loadAllChats", val |-> val]
    /\ UNCHANGED <<dirs, files, clock, created, streamVars, viewVars>>

GetChatsByAgent(agentId) ==
    /\ \E val \in getChatsByAgent(FS, agentId) :
          result' = [op |-> "getChatsByAgent", agentId |-> agentId, val |-> val]
    /\ UNCHANGED <<dirs, files, clock, created, streamVars, viewVars>>

DeleteChat(chatId, agentId) ==
    /\ \E fs \in deleteChat(FS, chatId, agentId) : SetFS(fs)
    /\ result' = [op |-> "deleteChat", chatId |-> chatId, agentId |-> agentId]
    /\ UNCHANGED <<clock, created, streamVars, viewVars>>

\* the sessions of both layouts that parse, each with the file that holds it
StoredSessions(fs) ==
    {[file |-> f, chat |-> JSONparse(fs.files[f]).val] :
        f \in {g \in DOMAIN fs.files : JSONparse(fs.files[g]).ok}}

\* `before` keeps the sessions stored when the run started, `again` whether the
\* operation completed just before it was a migration too
MigrateOldChats ==
    /\ \E fs \in migrateOldChats(FS) : SetFS(fs)
    /\ result' = [op |-> "migrateOldChats", before |-> StoredSessions(FS),
                  again |-> (result.op = "migrateOldChats")]
    /\ UNCHANGED <<clock, created, streamVars, viewVars>>

\* the flat-layout version of the plugin saves a session: one it has just created,
\* or one it has loaded from its flat file
LegacySaveChat(chat) ==
    /\ \/ LegacyPath(chat.id) \in DOMAIN files
       \/ ~IdInUse(chat.id) /\ Cardinality(DOMAIN files) < MaxSessions
    /\ SetFS(legacySaveChat(FS, chat))
    /\ result' = [op |-> "legacySaveChat", chat |-> chat]
    /\ UNCHANGED <<clock, created, streamVars, viewVars>>

\* a write that was interrupted
InterruptedWrite(f) ==
    /\ files[f] # CorruptData
    /\ files' = [files EXCEPT ![f] = CorruptData]
    /\ result' = [op |-> "none"]
    /\ UNCHANGED <<dirs, clock, created, streamVars, viewVars>>

\* save, load and delete of sessions of the hierarchical layout
NextStore ==
    \/ \E chat \in Chats : SaveChat(chat)
    \/ \E chatId \in Ids, agentId \in Agents \cup {<<>>} : LoadChat(chatId, agentId)
    \/ \E chatId \in Ids, agentId \in Agents \cup {<<>>} : DeleteChat(chatId, agentId)

SpecStore == InitStore /\ [][NextStore]_vars

\* the listing operations over a store that saves and deletes build
NextList ==
    \/ \E chat \in Chats : SaveChat(chat)
    \/ \E chatId \in Ids, agentId \in Agents : DeleteChat(chatId, agentId)
    \/ \E f \in DOMAIN files : InterruptedWrite(f)
    \/ LoadAllChats
    \/ \E agentId \in Agents : GetChatsByAgent(agentId)

SpecList == InitStore /\ [][NextList]_vars

\* the migration of the flat layout, over a store both versions have written
NextMigrate ==
    \/ \E chat \in LegacyChats : LegacySaveChat(chat)
    \/ \E chat \in Chats : SaveChat(chat)
    \/ \E f \in DOMAIN files : InterruptedWrite(f)
    \/ MigrateOldChats
    \/ \E chatId \in LegacyIds : LoadChat(chatId, DefaultAgent)

SpecMigrate == InitStore /\ [][NextMigrate]_vars

-----------------------------------------------------------------------------
(* Properties of the store *)

HistoryFile(agentId, chatId) == TopicDirOf(agentId, chatId) \o <<"/">> \o HistoryName

\* C1: a loadChat(id, agentId) that directly follows saveChat(session) returns a
\* session equal to the saved one in every field
C1_SaveLoadRoundTrip ==
    (/\ result.op = "loadChat"
     /\ result.after.op = "saveChat"
     /\ result.chatId = result.after.chat.id
     /\ result.agentId = result.after.chat.agentId)
    => result.val = <<result.after.chat>>

\* a session with all optional fields and a two-digit time stamp made the round trip
C1_Witness ==
    /\ result.op = "loadChat"
    /\ result.after.op = "saveChat"
    /\ result.chatId = result.after.chat.id
    /\ result.agentId = result.after.chat.agentId
    /\ DOMAIN result.after.chat = {KeyOrder[i] : i \in 1..Len(KeyOrder)}
    /\ result.after.chat.updatedAt >= Len(Digits)
    /\ result.val = <<result.after.chat>>

\* C5: after deleteChat(id, agentId) has completed no file is left under the topic
\* directory of (agentId, id), and a loadChat(id, agentId) that follows returns
\* not-found, whatever the other agents hold
C5_DeleteCompleteness ==
    /\ (result.op = "deleteChat" /\ result.agentId # <<>>)
       => \A f \in DOMAIN files : ~Under(f, TopicDirOf(result.agentId, result.chatId))
    /\ (/\ result.op = "loadChat"
        /\ result.after.op = "deleteChat"
        /\ result.agentId # <<>>
        /\ result.chatId = result.after.chatId
        /\ result.agentId = result.after.agentId)
       => result.val = Null

\* C6: loadChat(chatId, agentId) with an agentId returns not-found when that agent
\* has no history file for chatId, whatever the other agents' directories hold
C6_LoadReadsOnlyGivenAgent ==
    (/\ result.op = "loadChat"
     /\ result.agentId # <<>>
     /\ HistoryFile(result.agentId, result.chatId) \notin DOMAIN files)
    => result.val = Null

\* C7: the sequences loadAllChats and getChatsByAgent return are non-increasing in
\* updatedAt
C7_ListingsSorted ==
    result.op \in {"loadAllChats", "getChatsByAgent"}
    => \A i \in 1..(Len(result.val) - 1) : result.val[i].updatedAt >= result.val[i + 1].updatedAt

\* loadAllChats returned two sessions of different age
C7_Witness ==
    /\ result.op = "loadAllChats"
    /\ Len(result.val) >= 2
    /\ result.val[1].updatedAt > result.val[2].updatedAt

InFlatLayout(file) == ChildOf(file, chatsDir)

\* the session as the migration stores it: agentId defaults to 'default'
WithDefaultAgent(chat) ==
    IF "agentId" \in DOMAIN chat THEN chat ELSE WithField(chat, "agentId", DefaultAgent)

\* C8: a second run of migrateOldChats leaves the set of persisted sessions of the
\* first run, and every session stored before a run (flat or hierarchical layout)
\* is stored exactly once after it, with its content
C8_MigrationIdempotentLossless ==
    result.op = "migrateOldChats"
    => /\ result.again => StoredSessions(FS) = result.before
       /\ \A b \in result.before :
            LET copies == {s \in StoredSessions(FS) :
                             /\ s.chat.id = b.chat.id
                             /\ WithDefaultAgent(s.chat).agentId = WithDefaultAgent(b.chat).agentId}
            IN  /\ Cardinality(copies) = 1
                /\ \A s \in copies : s.chat = WithDefaultAgent(b.chat)

\* a second run over a store that holds a migrated session next to one that was
\* saved in the hierarchical layout
C8_Witness ==
    /\ result.op = "migrateOldChats"
    /\ result.again
    /\ \E b \in result.before : b.chat.id \in LegacyIds /\ ~InFlatLayout(b.file)
    /\ \E b \in result.before : b.chat.id \in Ids

\* C9: after migrateOldChats a flat file <root>/<name>.json without agentId no
\* longer exists, and loadChat(<name>, 'default') returns its session
C9_AgentlessLegacyMigrated ==
    /\ result.op = "migrateOldChats"
       => \A b \in result.before :
            (InFlatLayout(b.file) /\ "agentId" \notin DOMAIN b.chat) => b.file \notin DOMAIN files
    /\ (result.op = "loadChat" /\ result.after.op = "migrateOldChats"
            /\ result.agentId = DefaultAgent)
       => \A b \in result.after.before :
            (b.file = LegacyPath(result.chatId) /\ "agentId" \notin DOMAIN b.chat)
            => result.val = <<WithField(b.chat, "agentId", DefaultAgent)>>

\* a session of a flat file without agentId was loaded under 'default' after the
\* migration
C9_Witness ==
    /\ result.op = "loadChat"
    /\ result.after.op = "migrateOldChats"
    /\ result.agentId = DefaultAgent
    /\ \E b \in result.after.before :
         /\ b.file = LegacyPath(result.chatId)
         /\ "agentId" \notin DOMAIN b.chat
         /\ result.val = <<WithField(b.chat, "agentId", DefaultAgent)>>
         /\ b.file \notin DOMAIN files

\* C17: getChatsByAgent(a) returns one entry for each session stored with agentId
\* a and nothing else, and the empty list for an agent without a topics directory
C17_ListByAgentExact ==
    result.op = "getChatsByAgent"
    => LET mine == {s \in StoredSessions(FS) : s.chat.agentId = result.agentId}
       IN  /\ Len(result.val) = Cardinality(mine)
           /\ \A s \in mine : \E i \in 1..Len(result.val) : result.val[i] = s.chat
           /\ getTopicsDir(result.agentId) \notin dirs => result.val = <<>>

\* the listing of one agent returned its session while another agent held one too
C17_Witness ==
    /\ result.op = "getChatsByAgent"
    /\ Len(result.val) = 1
    /\ result.val[1].agentId = result.agentId
    /\ \E s \in StoredSessions(FS) : s.chat.agentId # result.agentId

\* C18: loadAllChats returns every session whose history.json parses, each once,
\* and nothing for a file that does not parse
C18_LoadAllSkipsUnparseable ==
    result.op = "loadAllChats"
    => /\ Len(result.val) = Cardinality(StoredSessions(FS))
       /\ \A s \in StoredSessions(FS) : \E i \in 1..Len(result.val) : result.val[i] = s.chat

\* one of two history files did not parse and the session of the other was returned
C18_Witness ==
    /\ result.op = "loadAllChats"
    /\ Len(result.val) = 1
    /\ \E f \in DOMAIN files : ~JSONparse(files[f]).ok

-----------------------------------------------------------------------------
(* ChatStorage over an adapter whose calls may fail.  A fault names the     *)
(* adapter call that rejects: the kind of the call and the path it is made  *)
(* on.  What an operation leaves is a record of the file system, the value  *)
(* it returns, whether an exception leaves it (`thrown`) and the kind of    *)
(* the call that failed in it (`failed`).                                   *)

NoFault == <<>>

\* the adapter call `kind` on path p rejects
Fails(fault, kind, p) == fault = <<kind, p>>

Started(fs, val) == [fs |-> fs, val |-> val, thrown |-> FALSE, failed |-> "none"]

\* the adapter call of that kind rejects, here
Throw(o, kind) == [o EXCEPT !.thrown = TRUE, !.failed = kind]

\* an operation body wrapped in a handler that swallows nothing
rethrow(o, val) == o

\* try { ... } catch (error) { console.error(...); <return val> }
catchAndLog(o, val) == IF o.thrown THEN [o EXCEPT !.val = val, !.thrown = FALSE] ELSE o

\* if (!(await adapter.exists(d))) await adapter.mkdir(d), unless a call before threw
ensureDir(o, d, fault) ==
    IF o.thrown THEN o
    ELSE IF Fails(fault, "exists", d) THEN Throw(o, "exists")
    ELSE IF exists(o.fs, d) THEN o
    ELSE IF Fails(fault, "mkdir", d) THEN Throw(o, "mkdir")
    ELSE [o EXCEPT !.fs = mkdir(o.fs, d)]

\* a saveChat whose body is wrapped in try / catch like the other operations
saveChatSwallowing(fs, chat, fault) ==
    LET o == ensureDir(ensureDir(ensureDir(Started(fs, Null), getAgentDir(chat.agentId), fault),
                                 getTopicsDir(chat.agentId), fault),
                       getTopicDir(chat), fault)
    IN  IF o.thrown THEN [o EXCEPT !.thrown = FALSE]
        ELSE IF Fails(fault, "write", getChatFilePath(chat))
        THEN [Throw(o, "write") EXCEPT !.thrown = FALSE]
        ELSE [o EXCEPT !.fs = write(o.fs, getChatFilePath(chat), JSONstringify(chat))]

\* saveChat: no try / catch, so what an adapter call throws leaves the operation
saveChatFailing(fs, chat, fault) ==
    LET o == ensureDir(ensureDir(ensureDir(Started(fs, Null), getAgentDir(chat.agentId), fault),
                                 getTopicsDir(chat.agentId), fault),
                       getTopicDir(chat), fault)
    IN  IF o.thrown THEN o
        ELSE IF Fails(fault, "write", getChatFilePath(chat)) THEN Throw(o, "write")
        ELSE [o EXCEPT !.fs = write(o.fs, getChatFilePath(chat), JSONstringify(chat))]

\* loadChat: what the operation may leave.  The search returns the first hit of
\* the adapter's enumeration order and throws at the first failing call of that
\* order: every hit that no failing call precedes in every order may be returned,
\* and every failing call of the search may be reached
loadChatFailing(fs, chatId, agentId, fault) ==
    LET Read(f) == IF Fails(fault, "read", f) THEN Throw(Started(fs, Null), "read")
                   ELSE IF ~JSONparse(fs.files[f]).ok THEN Throw(Started(fs, Null), "parse")
                   ELSE Started(fs, <<JSONparse(fs.files[f]).val>>)
        filePath == getTopicsDir(agentId) \o <<"/">> \o TopicMark \o chatId
                        \o <<"/">> \o HistoryName
        topicsOf(d) == d \o <<"/">> \o TopicsName
        fileOf(t) == t \o <<"/">> \o HistoryName
        agentDirs == {d \in listFolders(fs, chatsDir) : includes(d, AgentMark)}
        listThrows(d) == exists(fs, topicsOf(d)) /\ Fails(fault, "list", topicsOf(d))
        dirThrows(d) == Fails(fault, "exists", topicsOf(d)) \/ listThrows(d)
        topicDirs(d) == IF exists(fs, topicsOf(d)) /\ ~dirThrows(d)
                        THEN {t \in listFolders(fs, topicsOf(d)) : includes(t, TopicMark \o chatId)}
                        ELSE {}
        topicThrows(t) == Fails(fault, "exists", fileOf(t))
        hits == UNION {{fileOf(t) : t \in {u \in topicDirs(d) : ~topicThrows(u) /\ exists(fs, fileOf(u))}} :
                         d \in agentDirs}
        existsThrows == \/ \E d \in agentDirs : Fails(fault, "exists", topicsOf(d))
                        \/ \E d \in agentDirs : \E t \in topicDirs(d) : topicThrows(t)
        listingThrows == \E d \in agentDirs : listThrows(d)
        search == IF Fails(fault, "list", chatsDir) THEN {Throw(Started(fs, Null), "list")}
                  ELSE {Read(f) : f \in hits}
                       \cup (IF existsThrows THEN {Throw(Started(fs, Null), "exists")} ELSE {})
                       \cup (IF listingThrows THEN {Throw(Started(fs, Null), "list")} ELSE {})
                       \cup (IF hits = {} /\ ~existsThrows /\ ~listingThrows
                             THEN {Started(fs, Null)} ELSE {})
        tried == IF agentId = <<>> THEN search
                 ELSE IF Fails(fault, "exists", filePath) THEN {Throw(Started(fs, Null), "exists")}
                 ELSE IF exists(fs, filePath) THEN {Read(filePath)}
                 ELSE search
    IN  {catchAndLog(o, Null) : o \in tried}

\* deleteChat: loadChat, then exists and rmdir of the topic directory, in one try
deleteChatFailing(fs, chatId, agentId, fault) ==
    LET Remove(found) ==
            IF Fails(fault, "exists", getTopicDir(found.val[1])) THEN Throw(found, "exists")
            ELSE IF ~exists(fs, getTopicDir(found.val[1])) THEN found
            ELSE IF Fails(fault, "rmdir", getTopicDir(found.val[1])) THEN Throw(found, "rmdir")
            ELSE [found EXCEPT !.fs = rmdir(fs, getTopicDir(found.val[1]))]
    IN  {[catchAndLog(IF found.val = Null THEN found ELSE Remove(found), Null) EXCEPT !.val = Null] :
            found \in loadChatFailing(fs, chatId, agentId, fault)}

\* the loop over the topic folders of one topics directory: a failing exists ends
\* it (outer catch), a failing read or parse skips the file (inner catch)
RECURSIVE walkTopics(_, _, _)
walkTopics(fs, topicSeq, fault) ==
    IF topicSeq = <<>> THEN Started(fs, <<>>)
    ELSE LET filePath == Head(topicSeq) \o <<"/">> \o HistoryName
             rest == walkTopics(fs, Tail(topicSeq), fault)
         IN  IF Fails(fault, "exists", filePath) THEN Throw(Started(fs, <<>>), "exists")
             ELSE IF ~exists(fs, filePath) THEN rest
             ELSE IF Fails(fault, "read", filePath)
             THEN [rest EXCEPT !.failed = IF @ = "none" THEN "read" ELSE @]
             ELSE IF ~JSONparse(fs.files[filePath]).ok
             THEN [rest EXCEPT !.failed = IF @ = "none" THEN "parse" ELSE @]
             ELSE [rest EXCEPT !.val = ReadChat(fs, filePath) \o @]

\* getChatsByAgent: the chats pushed before a call failed are sorted and returned
getChatsByAgentFailing(fs, agentId, fault) ==
    LET topicsDir == getTopicsDir(agentId)
        Listed(o) == [catchAndLog(o, o.val) EXCEPT !.val = sortChats(@)]
    IN  IF Fails(fault, "exists", topicsDir) THEN {Listed(Throw(Started(fs, <<>>), "exists"))}
        ELSE IF ~exists(fs, topicsDir) THEN {Started(fs, <<>>)}
        ELSE IF Fails(fault, "list", topicsDir) THEN {Listed(Throw(Started(fs, <<>>), "list"))}
        ELSE {Listed(walkTopics(fs, seq, fault)) : seq \in Orderings(listFolders(fs, topicsDir))}

\* the loop of loadAllChats over the agent directories
RECURSIVE walkAgents(_, _, _)
walkAgents(fs, dirSeq, fault) ==
    IF dirSeq = <<>> THEN {Started(fs, <<>>)}
    ELSE LET topicsPath == Head(dirSeq) \o <<"/">> \o TopicsName
         IN  IF Fails(fault, "exists", topicsPath) THEN {Throw(Started(fs, <<>>), "exists")}
             ELSE IF ~exists(fs, topicsPath) THEN walkAgents(fs, Tail(dirSeq), fault)
             ELSE IF Fails(fault, "list", topicsPath) THEN {Throw(Started(fs, <<>>), "list")}
             ELSE {IF w.thrown THEN w
                   ELSE [r EXCEPT !.val = w.val \o @,
                                  !.failed = IF w.failed = "none" THEN @ ELSE w.failed] :
                     w \in {walkTopics(fs, seq, fault) :
                              seq \in Orderings(listFolders(fs, topicsPath))},
                     r \in walkAgents(fs, Tail(dirSeq), fault)}

\* loadAllChats: the chats pushed before a call failed are sorted and returned
loadAllChatsFailing(fs, fault) ==
    LET Listed(o) == [catchAndLog(o, o.val) EXCEPT !.val = sortChats(@)]
    IN  IF Fails(fault, "list", chatsDir) THEN {Listed(Throw(Started(fs, <<>>), "list"))}
        ELSE UNION {{Listed(o) : o \in walkAgents(fs, dirSeq, fault)} :
                      dirSeq \in Orderings({d \in listFolders(fs, chatsDir) : includes(d, AgentMark)})}

\* the sessions the operations are called with where adapter calls may fail
FaultChats == {FreshChat(id, a, stringToNumber(id)) : id \in Ids, a \in Agents}

\* no call fails, or one of the adapter calls the operations make for the session
\* of agent 'a' with id '1' does
Faults ==
    LET agentId == <<"a">>
        topicDir == TopicDirOf(agentId, numberToString(1))
    IN  {NoFault,
         <<"list", chatsDir>>,
         <<"exists", getAgentDir(agentId)>>, <<"mkdir", getAgentDir(agentId)>>,
         <<"exists", getTopicsDir(agentId)>>, <<"mkdir", getTopicsDir(agentId)>>,
         <<"list", getTopicsDir(agentId)>>,
         <<"exists", topicDir>>, <<"mkdir", topicDir>>, <<"rmdir", topicDir>>,
         <<"exists", topicDir \o <<"/">> \o HistoryName>>,
         <<"read", topicDir \o <<"/">> \o HistoryName>>,
         <<"write", topicDir \o <<"/">> \o HistoryName>>}

SaveChatUnder(chat, fault) ==
    /\ \/ getChatFilePath(chat) \in DOMAIN files
       \/ Cardinality(DOMAIN files) < MaxSessions
    /\ SetFS(saveChatFailing(FS, chat, fault).fs)
    /\ result' = [op |-> "saveChat", chat |-> chat,
                  failed |-> saveChatFailing(FS, chat, fault).failed,
                  rejected |-> saveChatFailing(FS, chat, fault).thrown]
    /\ UNCHANGED <<clock, created, streamVars, viewVars>>

LoadChatUnder(chatId, agentId, fault) ==
    /\ \E o \in loadChatFailing(FS, chatId, agentId, fault) :
          result' = [op |-> "loadChat", failed |-> o.failed, val |-> o.val, rejected |-> o.thrown]
    /\ UNCHANGED <<dirs, files, clock, created, streamVars, viewVars>>

LoadAllChatsUnder(fault) ==
    /\ \E o \in loadAllChatsFailing(FS, fault) :
          result' = [op |-> "loadAllChats", failed |-> o.failed, val |-> o.val,
                     rejected |-> o.thrown]
    /\ UNCHANGED <<dirs, files, clock, created, streamVars, viewVars>>

GetChatsByAgentUnder(agentId, fault) ==
    /\ \E o \in getChatsByAgentFailing(FS, agentId, fault) :
          result' = [op |-> "getChatsByAgent", failed |-> o.failed, val |-> o.val,
                     rejected |-> o.thrown]
    /\ UNCHANGED <<dirs, files, clock, created, streamVars, viewVars>>

DeleteChatUnder(chatId, agentId, fault) ==
    /\ \E o \in deleteChatFailing(FS, chatId, agentId, fault) :
          /\ SetFS(o.fs)
          /\ result' = [op |-> "deleteChat", failed |-> o.failed, val |-> o.val,
                        rejected |-> o.thrown]
    /\ UNCHANGED <<clock, created, streamVars, viewVars>>

\* the store operations over an adapter that may fail one call of each operation
NextFault ==
    \/ \E chat \in FaultChats, fault \in Faults : SaveChatUnder(chat, fault)
    \/ \E f \in DOMAIN files : InterruptedWrite(f)
    \/ \E chatId \in Ids, agentId \in Agents \cup {<<>>}, fault \in Faults :
          LoadChatUnder(chatId, agentId, fault)
    \/ \E fault \in Faults : LoadAllChatsUnder(fault)
    \/ \E agentId \in Agents, fault \in Faults : GetChatsByAgentUnder(agentId, fault)
    \/ \E chatId \in Ids, agentId \in Agents \cup {<<>>}, fault \in Faults :
          DeleteChatUnder(chatId, agentId, fault)

SpecFault == InitStore /\ [][NextFault]_vars

\* the body of the inner try for one legacy file: read, JSON.parse, saveChat, remove
migrateFileFailing(fs, file, fault) ==
    LET parsed == JSONparse(fs.files[file])
        chat == IF Prop(parsed.val, "agentId") = <<>>
                THEN WithField(parsed.val, "agentId", DefaultAgent)
                ELSE parsed.val
        saved == saveChatFailing(fs, chat, fault)
    IN  IF Fails(fault, "read", file) THEN Throw(Started(fs, Null), "read")
        ELSE IF ~parsed.ok THEN Throw(Started(fs, Null), "parse")
        ELSE IF saved.thrown THEN saved
        ELSE IF Fails(fault, "remove", file) THEN Throw(saved, "remove")
        ELSE [saved EXCEPT !.fs = remove(saved.fs, file)]

\* a migration whose loop ends at the first file that fails
migrateOldChatsStopping(fs, fault) ==
    LET RECURSIVE loop(_, _)
        loop(f, fileSeq) ==
            IF fileSeq = <<>> THEN f
            ELSE IF migrateFileFailing(f, Head(fileSeq), fault).thrown
                 THEN migrateFileFailing(f, Head(fileSeq), fault).fs
                 ELSE loop(migrateFileFailing(f, Head(fileSeq), fault).fs, Tail(fileSeq))
    IN  IF Fails(fault, "list", chatsDir) THEN {fs}
        ELSE {loop(fs, seq) : seq \in Orderings(LegacyFiles(fs))}

\* migrateOldChats: the file systems it may leave.  The catch inside the loop
\* logs what one file throws and the loop goes on with the next file
migrateOldChatsFailing(fs, fault) ==
    LET RECURSIVE loop(_, _)
        loop(f, fileSeq) ==
            IF fileSeq = <<>> THEN f
            ELSE loop(catchAndLog(migrateFileFailing(f, Head(fileSeq), fault), Null).fs,
                      Tail(fileSeq))
    IN  IF Fails(fault, "list", chatsDir) THEN {fs}
        ELSE {loop(fs, seq) : seq \in Orderings(LegacyFiles(fs))}

MigrateOldChatsUnder(fault) ==
    /\ \E fs \in migrateOldChatsFailing(FS, fault) : SetFS(fs)
    /\ result' = [op |-> "migrateOldChats", before |-> StoredSessions(FS), fault |-> fault]
    /\ UNCHANGED <<clock, created, streamVars, viewVars>>

\* the migration of a flat layout that holds a session without agentId and a
\* session of agent 'a', over an adapter that may fail one call: the listing of the
\* root, or the read, a directory creation, the write or the remove for one legacy
\* file
NextPartial ==
    LET chats == {c \in LegacyChats :
                    /\ c.updatedAt = 2
                    /\ Prop(c, "agentId") = (IF c.id = <<"m">> THEN <<"a">> ELSE <<>>)}
        target(c) == IF Prop(c, "agentId") = <<>> THEN WithField(c, "agentId", DefaultAgent) ELSE c
        faults == {NoFault, <<"list", chatsDir>>}
                      \cup UNION {{<<"read", LegacyPath(c.id)>>, <<"remove", LegacyPath(c.id)>>,
                                   <<"mkdir", getAgentDir(target(c).agentId)>>,
                                   <<"mkdir", getTopicDir(target(c))>>,
                                   <<"write", getChatFilePath(target(c))>>} : c \in chats}
    IN  \/ \E chat \in chats : LegacySaveChat(chat)
        \/ \E f \in {g \in DOMAIN files : ChildOf(g, chatsDir)} : InterruptedWrite(f)
        \/ \E fault \in faults : MigrateOldChatsUnder(fault)

SpecPartial == InitStore /\ [][NextPartial]_vars

-----------------------------------------------------------------------------
(* Properties of the store over a failing adapter *)

\* C11, as stated: whatever adapter call fails inside saveChat, loadChat,
\* loadAllChats, getChatsByAgent or deleteChat, the operation's promise does not
\* reject
C11_NoOperationRejects ==
    result.op \in {"saveChat", "loadChat", "loadAllChats", "getChatsByAgent", "deleteChat"}
    => ~result.rejected

\* C11, amended: whatever adapter call fails inside loadChat, loadAllChats,
\* getChatsByAgent or deleteChat, the operation's promise does not reject: loadChat
\* returns not-found, the listings return sessions that are stored (those read
\* before the failure, a file that cannot be read skipped)
C11_ReadsAndDeleteNeverReject ==
    result.op \in {"loadChat", "loadAllChats", "getChatsByAgent", "deleteChat"}
    => /\ ~result.rejected
       /\ (result.op = "loadChat" /\ result.failed # "none") => result.val = Null
       /\ result.op \in {"loadAllChats", "getChatsByAgent"}
          => \A i \in 1..Len(result.val) :
                \E s \in StoredSessions(FS) : s.chat = result.val[i]

\* a failing exists ended a loadAllChats that had read one session: the call
\* returned that session
C11_Witness ==
    /\ result.op = "loadAllChats"
    /\ result.failed = "exists"
    /\ Len(result.val) = 1
    /\ ~result.rejected

\* C12: a saveChat in which a directory creation or the write fails rejects; a
\* saveChat that completes has stored the session
C12_SaveReportsFailure ==
    result.op = "saveChat"
    => /\ result.failed \in {"mkdir", "write"} => result.rejected
       /\ ~result.rejected
          => /\ getChatFilePath(result.chat) \in DOMAIN files
             /\ files[getChatFilePath(result.chat)] = JSONstringify(result.chat)

\* the write of a new session failed: saveChat rejected and no file holds the session
C12_Witness ==
    /\ result.op = "saveChat"
    /\ result.failed = "write"
    /\ result.rejected
    /\ getChatFilePath(result.chat) \notin DOMAIN files

\* the paths the migration of the stored legacy session b makes adapter calls on
PathsOf(b) ==
    {b.file, chatsDir, getAgentDir(WithDefaultAgent(b.chat).agentId),
     getTopicsDir(WithDefaultAgent(b.chat).agentId), getTopicDir(WithDefaultAgent(b.chat)),
     getChatFilePath(WithDefaultAgent(b.chat))}

\* C19: after a run of migrateOldChats in which the read, the parse, the save or
\* the remove of one legacy file failed, every legacy file that parsed and whose
\* own adapter calls did not fail is gone from the flat layout and its session is
\* stored in the hierarchical layout
C19_FailureDoesNotStopMigration ==
    result.op = "migrateOldChats"
    => \A b \in result.before :
          (/\ InFlatLayout(b.file)
           /\ result.fault = NoFault \/ result.fault[2] \notin PathsOf(b))
          => /\ b.file \notin DOMAIN files
             /\ getChatFilePath(WithDefaultAgent(b.chat)) \in DOMAIN files
             /\ JSONparse(files[getChatFilePath(WithDefaultAgent(b.chat))]).val
                    = WithDefaultAgent(b.chat)

\* the migration of one legacy file failed and left it in place, and another
\* legacy file was migrated in the same run
C19_Witness ==
    /\ result.op = "migrateOldChats"
    /\ result.fault # NoFault
    /\ \E b \in result.before :
         /\ InFlatLayout(b.file)
         /\ result.fault[2] \in PathsOf(b) \ {chatsDir}
         /\ b.file \in DOMAIN files
    /\ \E b \in result.before :
         /\ InFlatLayout(b.file)
         /\ result.fault[2] \notin PathsOf(b)
         /\ b.file \notin DOMAIN files
         /\ getChatFilePath(WithDefaultAgent(b.chat)) \in DOMAIN files

-----------------------------------------------------------------------------
(* OpenAIClient.sendMessage: the response stream                            *)

NewLine == "\n"

DataPrefix == <<"data:", " ">>

DoneMark == <<"[DONE]">>

\* the two bytes of one two-byte character, and the character
LeadByte == "C3"
TrailByte == "A9"
TwoByteChar == "e'"

\* decoder.decode(value, {stream: true}): a lead byte at the end of the input is
\* held back until its trail byte arrives
RECURSIVE decodeBytes(_)
decodeBytes(bytes) ==
    IF bytes = <<>> THEN [text |-> <<>>, held |-> <<>>]
    ELSE IF Head(bytes) = LeadByte
         THEN (IF Len(bytes) = 1 THEN [text |-> <<>>, held |-> bytes]
               ELSE LET rest == decodeBytes(SubSeq(bytes, 3, Len(bytes)))
                    IN  [text |-> <<TwoByteChar>> \o rest.text, held |-> rest.held])
    ELSE LET rest == decodeBytes(Tail(bytes))
         IN  [text |-> <<Head(bytes)>> \o rest.text, held |-> rest.held]

\* the fixed parts of a frame {"choices":[{"delta":{"content":"..."}}]}
FrameOpen == "{\"choices\":[{\"delta\":{"
ContentKey == "\"content\":"
FrameClose == "}}]}"

\* JSON.parse of the text after 'data: ', as far as the code looks at it:
\* what choices is and what choices[0].delta.content is
parseChunk(jsonStr) ==
    LET t == trim(jsonStr)
    IN  IF t = <<"{}">> THEN [ok |-> TRUE, choices |-> "absent", content |-> <<>>]
        ELSE IF t = <<"{\"choices\":null}">> THEN [ok |-> TRUE, choices |-> "null", content |-> <<>>]
        ELSE IF t = <<"{\"choices\":\"x\"}">> THEN [ok |-> TRUE, choices |-> "string", content |-> <<>>]
        ELSE IF t = <<"{\"choices\":[]}">> THEN [ok |-> TRUE, choices |-> "empty", content |-> <<>>]
        ELSE IF t = <<FrameOpen, FrameClose>> THEN [ok |-> TRUE, choices |-> "array", content |-> <<>>]
        ELSE IF /\ Len(t) >= 5
                /\ SubSeq(t, 1, 3) = <<FrameOpen, ContentKey, Quote>>
                /\ SubSeq(t, Len(t) - 1, Len(t)) = <<Quote, FrameClose>>
                /\ \A i \in 4..(Len(t) - 2) : t[i] \notin {Quote, FrameOpen, ContentKey, FrameClose, NewLine}
             THEN [ok |-> TRUE, choices |-> "array", content |-> SubSeq(t, 4, Len(t) - 2)]
        ELSE [ok |-> FALSE, choices |-> "absent", content |-> <<>>]

\* a frame handler that passes every content on, the empty one too
contentAlways(chunk) == <<chunk.content>>

\* const content = chunk.choices[0]?.delta?.content; if (content) onChunk(content)
contentCalls(chunk) == IF chunk.content # <<>> THEN <<chunk.content>> ELSE <<>>

\* the body of the for loop: the onChunk calls one line makes
handleLine(line) ==
    IF trim(line) = <<>> THEN <<>>
    ELSE IF trim(line) = DataPrefix \o DoneMark THEN <<>>
    ELSE IF ~startsWith(line, DataPrefix) THEN <<>>
    ELSE LET chunk == parseChunk(SubSeq(line, Len(DataPrefix) + 1, Len(line)))
         IN  IF ~chunk.ok THEN <<>>
             ELSE IF chunk.choices # "array" THEN <<>>
             ELSE contentCalls(chunk)

\* a reader that forgets the incomplete line
keepNothing(lines) == <<>>

\* buffer = lines.pop() || ''
keepLastLine(lines) == lines[Len(lines)]

\* JSON.parse throws on the text of this line
parseThrows(line) ==
    /\ trim(line) # <<>>
    /\ trim(line) # DataPrefix \o DoneMark
    /\ startsWith(line, DataPrefix)
    /\ ~parseChunk(SubSeq(line, Len(DataPrefix) + 1, Len(line))).ok

\* a handler that lets the exception of a line leave the for loop
rethrowParseError(thrown) == thrown

\* try { ... } catch (error) { console.error(...) } around the body of the for
\* loop: whether what the line throws leaves the loop
catchParseError(thrown) == FALSE

\* one pass of the while loop over the text of one read: the lines are handled up
\* to the first one whose exception leaves the loop
processText(buf, text) ==
    LET lines == split(buf \o text, NewLine)
        escaping == {i \in 1..(Len(lines) - 1) : catchParseError(parseThrows(lines[i]))}
        last == IF escaping = {} THEN Len(lines) - 1
                ELSE CHOOSE i \in escaping : \A j \in escaping : i <= j
    IN  [buffer |-> keepLastLine(lines),
         calls |-> Concat([i \in 1..last |-> handleLine(lines[i])]),
         thrown |-> escaping # {}]

\* a catch block that treats an abort like every other error
classifyAbortAsError(error) ==
    IF error.type = "TypeError" /\ error.mentionsFetch THEN "networkError" ELSE "rethrown"

\* the catch block: how the promise settles for a given error
classifyError(error) ==
    IF error.type = "TypeError" /\ error.mentionsFetch THEN "networkError"
    ELSE IF error.name = "AbortError" THEN "resolved"
    ELSE "rethrown"

\* what fetch and reader.read() reject with
AbortError == [type |-> "DOMException", name |-> "AbortError", mentionsFetch |-> FALSE]
FetchFailure == [type |-> "TypeError", name |-> "TypeError", mentionsFetch |-> TRUE]
ReadFailure == [type |-> "TypeError", name |-> "TypeError", mentionsFetch |-> FALSE]
ApiError == [type |-> "Error", name |-> "Error", mentionsFetch |-> FALSE]

\* the fixed parts of an error body {"error":{"message":"..."}}
ErrorOpen == "{\"error\":{\"message\":"
ErrorClose == "}}"

\* errorJson.error?.message of JSON.parse(errorText); <<>> where JSON.parse throws,
\* where reading the property throws and where the property is missing or empty
providerMessage(errorText) ==
    IF /\ Len(errorText) >= 4
       /\ SubSeq(errorText, 1, 2) = <<ErrorOpen, Quote>>
       /\ SubSeq(errorText, Len(errorText) - 1, Len(errorText)) = <<Quote, ErrorClose>>
       /\ \A i \in 3..(Len(errorText) - 2) : errorText[i] \notin {Quote, ErrorOpen, ErrorClose}
    THEN SubSeq(errorText, 3, Len(errorText) - 2)
    ELSE <<>>

\* an error message without the status code
errorMessageWithoutStatus(status, errorText) ==
    <<"API request failed", ": ">>
        \o (IF providerMessage(errorText) # <<>> THEN providerMessage(errorText) ELSE errorText)

\* errorMessage: the fixed text (Chinese in the code), the status code in
\* parentheses, a colon, and the provider's message or the raw body
errorMessage(status, errorText) ==
    <<"API request failed", " ", "(">> \o numberToString(status) \o <<")", ": ">>
        \o (IF providerMessage(errorText) # <<>> THEN providerMessage(errorText) ELSE errorText)

-----------------------------------------------------------------------------
(* The response bodies the server may produce *)

Frame(content) == DataPrefix \o <<FrameOpen, ContentKey, Quote>> \o content \o <<Quote, FrameClose>>

\* the lines of a body, without their line ends
Menu ==
    << Frame(<<"H", LeadByte, TrailByte>>),        \* a delta with a two-byte character
       Frame(<<"o">>),                             \* another delta
       Frame(<<>>),                                \* "content": ""
       DataPrefix \o <<FrameOpen, FrameClose>>,    \* a delta without content
       DataPrefix \o <<"{\"choices\":null}">>,
       DataPrefix \o <<"{\"choices\":\"x\"}">>,
       DataPrefix \o <<"{\"choices\":[]}">>,
       DataPrefix \o <<"{}">>,
       DataPrefix \o DoneMark,
       <<>>,                                       \* a blank line
       <<":", " ", "k">>,                          \* a comment line
       <<" ">> \o Frame(<<"o">>),                  \* a frame behind a space
       Frame(<<"o">>) \o <<"\r">>,                 \* a frame of a CRLF stream
       DataPrefix \o <<FrameOpen, ContentKey, Quote, "H">> >>   \* JSON cut off

\* what may follow the last line end
Tails == {<<>>, Frame(<<"o">>)}

Bodies ==
    {Concat([i \in 1..n |-> Menu[pick[i]] \o <<NewLine>>]) \o tail :
        <<n, pick, tail>> \in
            UNION {{<<m, f, t>> : f \in [1..m -> 1..Len(Menu)], t \in Tails} : m \in 0..MaxLines}}

Pending == {"idle", "requesting", "errorBody", "reading"}

\* response.ok: the status is in the range 200-299
OkStatuses == {200}

Statuses == OkStatuses \cup {404, 500}

\* an error body of the shape {"error":{"message":"..."}}
ProviderError(message) == <<ErrorOpen, Quote>> \o message \o <<Quote, ErrorClose>>

ProviderMessages == {<<"b", "a", "d">>}

\* the error bodies a provider or a proxy may send
ErrorTexts ==
    {ProviderError(m) : m \in ProviderMessages}
        \cup {ProviderError(<<>>), <<"{\"error\":{}}">>, <<"null">>, <<"<html>">>, <<>>}

InitStream ==
    /\ dirs = {chatsDir}
    /\ files = <<>>
    /\ clock = Epoch
    /\ result = [op |-> "none"]
    /\ created = <<>>
    /\ body \in Bodies
    /\ pos = 0
    /\ buffer = <<>>
    /\ calls = <<>>
    /\ pc = "idle"
    /\ aborted = FALSE
    /\ outcome = "none"
    /\ pending = <<>>
    /\ cuts = {}
    /\ requests = 0
    /\ response = [status |-> 0, text |-> <<>>]
    /\ caught = [type |-> "none"]
    /\ ViewIdle

\* a way of settling that calls again after a failure
SettleOrRetry(how) ==
    /\ pc' = IF how = "resolved" THEN "done" ELSE "idle"
    /\ outcome' = how
    /\ UNCHANGED <<viewVars, storeVars, body, pos, buffer, calls, aborted, pending, cuts, requests, response>>

\* the promise settles
Settle(how) ==
    /\ pc' = "done"
    /\ outcome' = how
    /\ UNCHANGED <<viewVars, storeVars, body, pos, buffer, calls, aborted, pending, cuts, requests, response>>

\* an error reaches the catch block
Caught(error) ==
    /\ Settle(classifyError(error))
    /\ caught' = error

\* await fetch(...) is reached
Send ==
    /\ pc = "idle"
    /\ pc' = "requesting"
    /\ requests' = requests + 1
    /\ UNCHANGED <<viewVars, storeVars, body, pos, buffer, calls, aborted, outcome, pending, cuts, response,
                   caught>>

\* fetch resolves with a response: its status, and the text of its body where
\* the status is not a success
FetchResponds(status, text) ==
    /\ pc = "requesting"
    /\ ~aborted
    /\ pc' = IF status \in OkStatuses THEN "reading" ELSE "errorBody"
    /\ response' = [status |-> status, text |-> IF status \in OkStatuses THEN <<>> ELSE text]
    /\ UNCHANGED <<viewVars, storeVars, body, pos, buffer, calls, aborted, outcome, pending, cuts, requests,
                   caught>>

\* fetch rejects: the endpoint cannot be reached
FetchFails ==
    /\ pc = "requesting"
    /\ ~aborted
    /\ Caught(FetchFailure)

\* response.text() resolves and the API error is thrown
ErrorBodyRead ==
    /\ pc = "errorBody"
    /\ ~aborted
    /\ Caught([message |-> errorMessage(response.status, response.text)] @@ ApiError)

\* response.text() rejects: the connection broke
ErrorBodyFails ==
    /\ pc = "errorBody"
    /\ ~aborted
    /\ Caught(ReadFailure)

\* reader.read() resolves with the next n bytes of the body
ReadChunk(n) ==
    /\ pc = "reading"
    /\ ~aborted
    /\ n \in 1..(Len(body) - pos)
    /\ LET decoded == decodeBytes(pending \o SubSeq(body, pos + 1, pos + n))
           step == processText(buffer, decoded.text)
           \* what JSON.parse throws
           ParseError == [type |-> "SyntaxError", name |-> "SyntaxError", mentionsFetch |-> FALSE]
       IN  /\ pending' = decoded.held
           /\ buffer' = step.buffer
           /\ calls' = calls \o step.calls
           /\ cuts' = cuts \cup (IF step.buffer # <<>> /\ pos + n < Len(body) THEN {"line"} ELSE {})
                            \cup (IF decoded.held # <<>> THEN {"char"} ELSE {})
           /\ pc' = IF step.thrown THEN "done" ELSE pc
           /\ outcome' = IF step.thrown THEN classifyError(ParseError) ELSE outcome
           /\ caught' = IF step.thrown THEN ParseError ELSE caught
    /\ pos' = pos + n
    /\ UNCHANGED <<viewVars, storeVars, body, aborted, requests, response>>

\* reader.read() resolves with done
ReadDone ==
    /\ pc = "reading"
    /\ ~aborted
    /\ pos = Len(body)
    /\ Settle("resolved")
    /\ UNCHANGED caught

\* reader.read() rejects: the connection broke
ReadFails ==
    /\ pc = "reading"
    /\ ~aborted
    /\ Caught(ReadFailure)

\* the caller aborts the signal
Abort ==
    /\ pc \in Pending
    /\ ~aborted
    /\ aborted' = TRUE
    /\ UNCHANGED <<viewVars, storeVars, body, pos, buffer, calls, pc, outcome, pending, cuts, requests,
                   response, caught>>

\* the pending fetch, text() or read() rejects with the AbortError
AbortObserved ==
    /\ aborted
    /\ pc \in Pending \ {"idle"}
    /\ Caught(AbortError)

NextStream ==
    \/ Send
    \/ \E status \in Statuses, text \in ErrorTexts : FetchResponds(status, text)
    \/ FetchFails
    \/ ErrorBodyRead
    \/ ErrorBodyFails
    \/ \E n \in 1..Len(body) : ReadChunk(n)
    \/ ReadDone
    \/ ReadFails
    \/ Abort
    \/ AbortObserved

SpecStream == InitStream /\ [][NextStream]_vars

\* 'data: ' lines whose text JSON.parse rejects: JSON that is cut off, text that is
\* not JSON, and nothing at all
MalformedLines ==
    {DataPrefix \o <<FrameOpen, ContentKey, Quote, "H">>, DataPrefix \o <<"o", "o", "p", "s">>,
     DataPrefix}

\* a stream of delta lines with one malformed line before, between or after them
InitMalformed ==
    /\ dirs = {chatsDir}
    /\ files = <<>>
    /\ clock = Epoch
    /\ result = [op |-> "none"]
    /\ created = <<>>
    /\ pos = 0
    /\ buffer = <<>>
    /\ calls = <<>>
    /\ pc = "idle"
    /\ aborted = FALSE
    /\ outcome = "none"
    /\ pending = <<>>
    /\ cuts = {}
    /\ requests = 0
    /\ response = [status |-> 0, text |-> <<>>]
    /\ caught = [type |-> "none"]
    /\ ViewIdle
    /\ \E pick \in [1..MaxLines -> {Menu[1], Menu[2]}], k \in 0..MaxLines, bad \in MalformedLines :
          body = Concat([i \in 1..(MaxLines + 1) |->
                           (IF i <= k THEN pick[i] ELSE IF i = k + 1 THEN bad ELSE pick[i - 1])
                               \o <<NewLine>>])

SpecMalformed == InitMalformed /\ [][NextStream]_vars

-----------------------------------------------------------------------------
(* createNewChat within one process *)

Tick ==
    /\ clock < Epoch + MaxClock
    /\ clock' = clock + 1
    /\ UNCHANGED <<dirs, files, result, created, streamVars, viewVars>>

CreateNewChat(agentId) ==
    /\ Len(created) < MaxCreated
    /\ created' = Append(created, createNewChat(agentId, clock))
    /\ result' = [op |-> "createNewChat", agentId |-> agentId, now |-> clock,
                  val |-> createNewChat(agentId, clock)]
    /\ UNCHANGED <<dirs, files, clock, streamVars, viewVars>>

NextCreate ==
    \/ Tick
    \/ \E agentId \in Agents : CreateNewChat(agentId)

SpecCreate == InitStore /\ [][NextCreate]_vars

-----------------------------------------------------------------------------
(* Properties of the stream client and of createNewChat *)

\* the call has read the whole body and resolved
Completed == pc = "done" /\ outcome = "resolved" /\ ~aborted

\* C2: the fragments passed to onChunk for a body are the same for every way of
\* splitting it into reads: they are the ones of the body read in one piece
C2_SplitIndependent ==
    Completed => calls = processText(<<>>, decodeBytes(body).text).calls

\* a body with two deltas was read with a cut inside a line and a cut inside a
\* character
C2_Witness ==
    /\ Completed
    /\ cuts = {"line", "char"}
    /\ Len(calls) = 2

\* the content of a line that is a 'data: ' frame with non-empty content, a
\* carriage return before the line end apart
DeltaOfLine(line) ==
    LET frame == IF line # <<>> /\ line[Len(line)] = "\r" THEN SubSeq(line, 1, Len(line) - 1)
                 ELSE line
        content == SubSeq(frame, Len(DataPrefix) + 4, Len(frame) - 2)
    IN  IF content # <<>> /\ Quote \notin {content[i] : i \in 1..Len(content)}
           /\ frame = Frame(content)
        THEN <<content>>
        ELSE <<>>

\* the lines of a text that a line end completes
CompleteLines(text) == SubSeq(split(text, NewLine), 1, Len(split(text, NewLine)) - 1)

\* C3: on a completed call the onChunk calls are, in stream order and one per line,
\* the non-empty contents of the complete 'data: ' frames with a non-empty choices
\* array; no other line makes a call
C3_CallsAreFrameContents ==
    Completed =>
        calls = Concat([i \in 1..Len(CompleteLines(decodeBytes(body).text)) |->
                          DeltaOfLine(CompleteLines(decodeBytes(body).text)[i])])

\* a delta line and the 'data: [DONE]' line were read: one call
C3_Witness ==
    /\ Completed
    /\ body = Menu[1] \o <<NewLine>> \o DataPrefix \o DoneMark \o <<NewLine>>
    /\ calls = << <<"H", TwoByteChar>> >>

\* C4: once the abort signal has fired while the call is pending, onChunk is not
\* called again and the promise resolves
C4_AbortIsSilent ==
    /\ [][aborted => calls' = calls]_vars
    /\ [](aborted /\ pc = "done" => outcome = "resolved")

\* an abort in the middle of the stream, after a delta, ended the call
C4_Witness ==
    /\ aborted
    /\ pc = "done"
    /\ outcome = "resolved"
    /\ calls # <<>>
    /\ pos < Len(body)

\* C10: any two sessions createNewChat has returned in this process have different
\* ids
C10_IdsUnique ==
    \A i, j \in 1..Len(created) : i # j => created[i].id # created[j].id

\* the complete lines of the body that are malformed 'data: ' lines
MalformedAt(lines) == {i \in 1..Len(lines) : lines[i] \in MalformedLines}

\* C13: a 'data: ' line that is not valid JSON never ends the call with an error,
\* and a call that completes on a body with one such line has delivered, in
\* order, the deltas of all the other lines
C13_MalformedLineSkipped ==
    /\ caught.type # "SyntaxError"
    /\ (Completed /\ Cardinality(MalformedAt(CompleteLines(decodeBytes(body).text))) = 1)
       => calls = Concat([i \in 1..Len(CompleteLines(decodeBytes(body).text)) |->
                            IF i \in MalformedAt(CompleteLines(decodeBytes(body).text)) THEN <<>>
                            ELSE DeltaOfLine(CompleteLines(decodeBytes(body).text)[i])])

\* a call completed on a body whose second line is cut-off JSON, between two
\* delta lines that were both delivered
C13_Witness ==
    /\ Completed
    /\ MalformedAt(CompleteLines(decodeBytes(body).text)) = {2}
    /\ Len(CompleteLines(decodeBytes(body).text)) = 3
    /\ Len(calls) = 2
    /\ "line" \in cuts

\* the three terminal outcomes of a call
Cancelled == pc = "done" /\ outcome = "resolved" /\ aborted
Failed == pc = "done" /\ outcome \in {"networkError", "rethrown"}

\* C14: a call makes at most one request; when it has ended it is in exactly one
\* of Completed (resolved with the whole body read), Cancelled (resolved after an
\* abort) and Failed (rejected); after that it makes no onChunk call and no request
\* and stays ended
C14_OneRequestOneOutcome ==
    /\ [](requests <= 1)
    /\ [](pc = "done" =>
            /\ Cardinality({o \in {"Completed", "Cancelled", "Failed"} :
                              \/ o = "Completed" /\ Completed
                              \/ o = "Cancelled" /\ Cancelled
                              \/ o = "Failed" /\ Failed}) = 1
            /\ Completed => pos = Len(body) /\ requests = 1)
    /\ [][pc = "done" =>
            /\ pc' = "done"
            /\ outcome' = outcome
            /\ calls' = calls
            /\ requests' = requests]_vars

\* a call failed in the middle of the stream, after one request and one delta
C14_Witness ==
    /\ Failed
    /\ requests = 1
    /\ calls # <<>>
    /\ pos < Len(body)

\* C15: a call whose response has a status that is not a success makes no onChunk
\* call; once the error body is read the call rejects with an error whose message
\* contains the status code and the provider's error.message, or the raw body where
\* the body is not of that shape
C15_ApiErrorCarriesStatusAndDetail ==
    (response.status # 0 /\ response.status \notin OkStatuses)
    => /\ calls = <<>>
       /\ (pc = "done" /\ ~aborted /\ caught.type = "Error")
          => /\ outcome = "rethrown"
             /\ includes(caught.message, numberToString(response.status))
             /\ \A m \in ProviderMessages :
                  response.text = ProviderError(m) => includes(caught.message, m)
             /\ response.text \notin {ProviderError(m) : m \in ProviderMessages}
                => /\ includes(caught.message, response.text)
                   /\ caught.message[Len(caught.message) - Len(response.text)] = ": "

\* a 404 response with a provider message ended the call
C15_Witness ==
    /\ pc = "done"
    /\ outcome = "rethrown"
    /\ response.status = 404
    /\ response.text \in {ProviderError(m) : m \in ProviderMessages}
    /\ \E m \in ProviderMessages : includes(caught.message, m)

\* C16: a transport failure (the TypeError fetch, response.text() or reader.read()
\* rejects with) always ends the call with the network error that carries the
\* remediation hint
C16_TransportFailuresCarryHint ==
    (pc = "done" /\ caught.type = "TypeError") => outcome = "networkError"

\* C20: the session createNewChat(agentId) returns has the given agentId, the
\* title 'New Chat', no messages, and createdAt and updatedAt equal to the current
\* time
C20_NewChatFields ==
    result.op = "createNewChat"
    => /\ result.val.agentId = result.agentId
       /\ result.val.title = NewChatTitle
       /\ result.val.messages = <<>>
       /\ result.val.updatedAt = result.now
       /\ "createdAt" \in DOMAIN result.val
       /\ result.val.createdAt = result.now

-----------------------------------------------------------------------------
(* ChatView.  A handler runs from one await to the next without interruption; *)
(* a handler that waits for a promise (saveChat, sendMessage) is a task, and  *)
(* one action resumes it.  The Chat objects live in `heap`: a field that      *)
(* holds a Chat (currentChat, the argument of a pending saveChat) holds its   *)
(* index, so that two fields can hold the same object.                        *)

MaxEvents == 2
MaxChunks == 1

Chunk == Yo.content
ErrorPrefix == <<"Error: ">>
BranchSuffix == <<" (Branch)">>

\* the sessions on disk when the view opens: the older one was renamed by hand
StoredAtOpen ==
    {FullChat(numberToString(1), <<"a">>, 1),
     [FreshChat(numberToString(2), <<"a">>, 2) EXCEPT !.messages = <<Hi, Yo, Hi, Yo>>]}

RECURSIVE saveAll(_, _)
saveAll(fs, chats) ==
    IF chats = {} THEN fs
    ELSE LET c == CHOOSE x \in chats : TRUE IN saveAll(saveChat(fs, c), chats \ {c})

Task(n, h, at, chat) ==
    [n |-> n, h |-> h, at |-> at, chat |-> chat, aborted |-> FALSE, got |-> 0, rest |-> <<>>]

\* chat.messages.push(message); chat.updatedAt = Date.now()
pushMessage(chat, message, now) ==
    [chat EXCEPT !.messages = Append(@, message), !.updatedAt = now]

manualTitle(chat) == "manualTitle" \in DOMAIN chat /\ chat.manualTitle

assistantCount(messages) ==
    Cardinality({i \in 1..Len(messages) : messages[i].role = Yo.role})

\* a promise that has settled resumes its handler before anything else runs: no
\* sendMessage whose signal was aborted is still to resolve
Settled == \A t \in tasks : ~(t.at = "sendMessage" /\ t.aborted)

\* the handler `h` resumes at the await `at` of task t
resumes(t, h, at) ==
    /\ t \in tasks
    /\ t.at = at
    /\ h \in {t.h, "any"}
    /\ Settled

\* an event in the view: no modal is open
UserActs ==
    /\ view.events < view.budget
    /\ Settled
    /\ modal = <<>>

Event == view.events + 1

\* the messages of the current session a handler is called for: the last two
Indices == {i \in 1..Len(heap[view.currentChat].messages) :
              i >= Len(heap[view.currentChat].messages) - 1}

\* the `finally` of handleSendMessage
finallySend(v) ==
    [v EXCEPT !.isLoading = FALSE, !.streamingMessage = <<>>, !.abortController = 0]

\* onOpen: loadOrCreateChat has loaded the most recent session of the active agent;
\* `budget` bounds the events of the user that follow
openView(budget) ==
    /\ dirs = saveAll([dirs |-> {chatsDir}, files |-> <<>>], StoredAtOpen).dirs
    /\ files = saveAll([dirs |-> {chatsDir}, files |-> <<>>], StoredAtOpen).files
    /\ clock = Epoch
    /\ result = [op |-> "none"]
    /\ created = <<>>
    /\ body = <<>>
    /\ pos = 0
    /\ buffer = <<>>
    /\ calls = <<>>
    /\ pc = "idle"
    /\ aborted = FALSE
    /\ outcome = "none"
    /\ pending = <<>>
    /\ cuts = {}
    /\ requests = 0
    /\ response = [status |-> 0, text |-> <<>>]
    /\ caught = [type |-> "none"]
    /\ \E chats \in getChatsByAgent([dirs |-> dirs, files |-> files], <<"a">>) :
          heap = <<chats[1]>>
    /\ view = [currentChat |-> 1, isLoading |-> FALSE, streamingMessage |-> <<>>,
               abortController |-> 0, isAutoNaming |-> FALSE, activeAgentId |-> <<"a">>,
               events |-> 0, budget |-> budget]
    /\ tasks = {}
    /\ modal = <<>>
    /\ log = <<>>

InitView == openView(MaxEvents)

\* handleSendMessage up to `await saveChat`, for a session whose messages are `kept`
startTurn(kept, content) ==
    LET c == view.currentChat
    IN  /\ heap' = [heap EXCEPT ![c] = pushMessage([@ EXCEPT !.messages = kept],
                                                   [role |-> Hi.role, content |-> content],
                                                   clock)]
        /\ tasks' = tasks \cup {Task(Event, "handleSendMessage", "saveUser", c)}
        /\ log' = Append(log, [ev |-> "user", turn |-> Event, chat |-> c])
        /\ view' = [view EXCEPT !.events = Event]
        /\ UNCHANGED <<modal, storeVars, streamVars>>

HandleSendMessage(content) ==
    /\ UserActs
    /\ view.currentChat # 0 /\ ~view.isLoading
    /\ startTurn(heap[view.currentChat].messages, content)

\* saveChat of the user message resolves; handleSendMessage goes on to sendMessage
UserMessageSaved(t) ==
    /\ resumes(t, "handleSendMessage", "saveUser")
    /\ SetFS(saveChat(FS, heap[t.chat]))
    /\ view' = [view EXCEPT !.isLoading = TRUE, !.streamingMessage = <<>>,
                            !.abortController = t.n]
    /\ tasks' = (tasks \ {t}) \cup {[t EXCEPT !.at = "sendMessage"]}
    /\ UNCHANGED <<heap, modal, log, clock, result, created, streamVars>>

\* the onChunk callback of handleSendMessage
OnChunk(t) ==
    /\ resumes(t, "handleSendMessage", "sendMessage") /\ t.got < MaxChunks
    /\ view' = [view EXCEPT !.streamingMessage = @ \o Chunk]
    /\ tasks' = (tasks \ {t}) \cup {[t EXCEPT !.got = @ + 1]}
    /\ UNCHANGED <<heap, modal, log, storeVars, streamVars>>

\* sendMessage resolves: the stream is complete, or the signal was aborted
SendMessageResolves(t) ==
    /\ t \in tasks /\ t.h = "handleSendMessage" /\ t.at = "sendMessage"
    /\ t.aborted \/ Settled
    /\ LET c == view.currentChat
           assistantMessage == [role |-> Yo.role, content |-> view.streamingMessage]
       IN  /\ heap' = [heap EXCEPT ![c] = pushMessage(@, assistantMessage, clock)]
           /\ tasks' = (tasks \ {t}) \cup {[t EXCEPT !.at = "saveReply", !.chat = c]}
           /\ log' = Append(log, [ev |-> "assistant", turn |-> t.n, chat |-> c,
                                  content |-> assistantMessage.content,
                                  how |-> IF t.aborted THEN "cancelled" ELSE "completed"])
    /\ UNCHANGED <<view, modal, storeVars, streamVars>>

\* sendMessage rejects
SendMessageRejects(t) ==
    /\ resumes(t, "handleSendMessage", "sendMessage")
    /\ LET c == view.currentChat
           content == ErrorPrefix \o errorMessage(500, <<>>)
       IN  /\ heap' = [heap EXCEPT ![c].messages =
                           Append(@, [role |-> Yo.role, content |-> content])]
           /\ log' = Append(log, [ev |-> "assistant", turn |-> t.n, chat |-> c,
                                  content |-> content, how |-> "failed",
                                  partial |-> view.streamingMessage])
    /\ tasks' = tasks \ {t}
    /\ view' = finallySend(view)
    /\ UNCHANGED <<modal, storeVars, streamVars>>

\* the end of generateChatTitle: autoNameChat and handleSendMessage run their
\* `finally`, the loop of 'Rename Recent' goes on to its next session
titleDone(t) ==
    /\ tasks' = IF t.h = "renameRecent" /\ t.rest # <<>>
                THEN (tasks \ {t}) \cup {[t EXCEPT !.at = "title", !.chat = Head(t.rest),
                                                   !.rest = Tail(t.rest)]}
                ELSE tasks \ {t}
    /\ view' = IF t.h = "handleSendMessage"
               THEN finallySend([view EXCEPT !.isAutoNaming = FALSE])
               ELSE view

\* saveChat of the reply resolves; autoNameChat, and generateChatTitle up to its
\* sendMessage
ReplySaved(t) ==
    /\ resumes(t, "handleSendMessage", "saveReply")
    /\ SetFS(saveChat(FS, heap[t.chat]))
    /\ LET c == view.currentChat
       IN  IF /\ ~manualTitle(heap[c])
              /\ ~view.isAutoNaming
              /\ assistantCount(heap[c].messages) >= 3
           THEN /\ view' = [view EXCEPT !.isAutoNaming = TRUE]
                /\ tasks' = (tasks \ {t}) \cup {[t EXCEPT !.at = "title", !.chat = c]}
           ELSE /\ view' = finallySend(view)
                /\ tasks' = tasks \ {t}
    /\ log' = Append(log, [ev |-> "saved", turn |-> t.n, chat |-> t.chat])
    /\ UNCHANGED <<heap, modal, clock, result, created, streamVars>>

Titles == {<<" ">>, <<Quote, "T", "2", Quote>>}

\* title.trim().replace(/^["']|["']$/g, '')
cleanTitle(raw) ==
    LET t1 == trim(raw)
        t2 == IF t1 # <<>> /\ Head(t1) = Quote THEN Tail(t1) ELSE t1
    IN  IF t2 # <<>> /\ t2[Len(t2)] = Quote THEN SubSeq(t2, 1, Len(t2) - 1) ELSE t2

\* the sendMessage of generateChatTitle resolves with the text `raw`
TitleResolves(t, raw) ==
    /\ resumes(t, "any", "title")
    /\ IF cleanTitle(raw) # <<>>
       THEN /\ heap' = [heap EXCEPT ![t.chat].title = cleanTitle(raw)]
            /\ tasks' = (tasks \ {t}) \cup {[t EXCEPT !.at = "saveTitle"]}
            /\ log' = Append(log, [ev |-> "title", chat |-> t.chat,
                                   manual |-> manualTitle(heap[t.chat])])
            /\ UNCHANGED view
       ELSE /\ titleDone(t)
            /\ UNCHANGED <<heap, log>>
    /\ UNCHANGED <<modal, storeVars, streamVars>>

\* the sendMessage of generateChatTitle rejects: the catch logs it
TitleRejects(t) ==
    /\ resumes(t, "any", "title")
    /\ titleDone(t)
    /\ UNCHANGED <<heap, modal, log, storeVars, streamVars>>

\* the saveChat of generateChatTitle resolves
TitleSaved(t) ==
    /\ resumes(t, "any", "saveTitle")
    /\ SetFS(saveChat(FS, heap[t.chat]))
    /\ titleDone(t)
    /\ UNCHANGED <<heap, modal, log, clock, result, created, streamVars>>

HandleStopGeneration ==
    /\ UserActs
    /\ view.abortController # 0
    /\ LET c == view.currentChat
           partial == view.streamingMessage # <<>> /\ c # 0
           signalled == {t \in tasks : t.n = view.abortController /\ t.at = "sendMessage"}
           others == tasks \ signalled
       IN  /\ tasks' = {[t EXCEPT !.aborted = TRUE] : t \in signalled}
                        \cup others
                        \cup (IF partial
                              THEN {Task(Event, "handleStopGeneration", "saveChat", c)}
                              ELSE {})
           /\ heap' = IF partial
                      THEN [heap EXCEPT ![c] =
                               pushMessage(@, [role |-> Yo.role,
                                               content |-> view.streamingMessage], clock)]
                      ELSE heap
           /\ log' = IF partial
                     THEN Append(log, [ev |-> "assistant", turn |-> view.abortController,
                                       chat |-> c, content |-> view.streamingMessage,
                                       how |-> "stopped"])
                     ELSE log
    /\ view' = [view EXCEPT !.abortController = 0, !.isLoading = FALSE,
                            !.streamingMessage = <<>>, !.events = Event]
    /\ UNCHANGED <<modal, storeVars, streamVars>>

\* a saveChat resolves whose handler has nothing left to do but, for handleBranch
\* and the rename and tags callbacks of the history, to set currentChat
SaveChatResolves(t) ==
    /\ resumes(t, "any", "saveChat")
    /\ SetFS(saveChat(FS, heap[t.chat]))
    /\ tasks' = tasks \ {t}
    /\ view' = IF \/ t.h = "handleBranch"
                  \/ /\ t.h \in {"rename", "tags"}
                     /\ view.currentChat # 0
                     /\ heap[view.currentChat].id = heap[t.chat].id
               THEN [view EXCEPT !.currentChat = t.chat]
               ELSE view
    /\ log' = Append(log, [ev |-> "saved", turn |-> t.n, chat |-> t.chat])
    /\ UNCHANGED <<heap, modal, clock, result, created, streamVars>>

\* a handler that changes the current session and saves it
saveCurrent(h, chat) ==
    /\ heap' = [heap EXCEPT ![view.currentChat] = chat]
    /\ tasks' = tasks \cup {Task(Event, h, "saveChat", view.currentChat)}
    /\ view' = [view EXCEPT !.events = Event]
    /\ UNCHANGED <<modal, log, storeVars, streamVars>>

\* the callback of the EditMessageModal
HandleEditMessage(index, newContent) ==
    /\ UserActs
    /\ view.currentChat # 0
    /\ index \in 1..Len(heap[view.currentChat].messages)
    /\ saveCurrent("handleEditMessage",
                   [heap[view.currentChat] EXCEPT !.messages[index].content = newContent,
                                                  !.updatedAt = clock])

\* messages.splice(index, 1)
splice(messages, index) ==
    SubSeq(messages, 1, index - 1) \o SubSeq(messages, index + 1, Len(messages))

HandleDeleteMessage(index) ==
    /\ UserActs
    /\ view.currentChat # 0
    /\ index \in 1..Len(heap[view.currentChat].messages)
    /\ saveCurrent("handleDeleteMessage",
                   [heap[view.currentChat] EXCEPT !.messages = splice(@, index),
                                                  !.updatedAt = clock])

HandleRegenerate(index) ==
    /\ UserActs
    /\ view.currentChat # 0 /\ ~view.isLoading
    /\ index \in 1..Len(heap[view.currentChat].messages)
    /\ LET messages == heap[view.currentChat].messages
       IN  IF messages[index].role = Hi.role
           THEN startTurn(SubSeq(messages, 1, index - 1), messages[index].content)
           ELSE IF index > 1 /\ messages[index - 1].role = Hi.role
                THEN startTurn(SubSeq(messages, 1, index - 2), messages[index - 1].content)
                ELSE /\ heap' = [heap EXCEPT ![view.currentChat].messages = splice(@, index)]
                     /\ view' = [view EXCEPT !.events = Event]
                     /\ UNCHANGED <<tasks, modal, log, storeVars, streamVars>>

\* a new Chat object becomes the current one and is saved
NewChat ==
    /\ UserActs
    /\ heap' = Append(heap, createNewChat(view.activeAgentId, clock))
    /\ tasks' = tasks \cup {Task(Event, "newChat", "saveChat", Len(heap) + 1)}
    /\ view' = [view EXCEPT !.currentChat = Len(heap) + 1, !.events = Event]
    /\ UNCHANGED <<modal, log, storeVars, streamVars>>

HandleBranch(messageIndex) ==
    /\ UserActs
    /\ view.currentChat # 0
    /\ messageIndex \in 1..Len(heap[view.currentChat].messages)
    /\ LET source == heap[view.currentChat]
           title == (IF source.title # <<>> THEN source.title ELSE <<"Chat">>) \o BranchSuffix
           newChat == WithField([createNewChat(view.activeAgentId, clock)
                                    EXCEPT !.messages = SubSeq(source.messages, 1, messageIndex),
                                           !.title = title],
                                "manualTitle", TRUE)
       IN  /\ heap' = Append(heap, newChat)
           /\ tasks' = tasks \cup {Task(Event, "handleBranch", "saveChat", Len(heap) + 1)}
           /\ log' = Append(log, [ev |-> "branch", source |-> view.currentChat,
                                  branch |-> Len(heap) + 1, index |-> messageIndex])
    /\ view' = [view EXCEPT !.events = Event]
    /\ UNCHANGED <<modal, storeVars, streamVars>>

Tags == {<<<<"x">>>>}

\* the callback of the TagModal
HandleAddTag(newTags) ==
    /\ UserActs
    /\ view.currentChat # 0
    /\ saveCurrent("handleAddTag", WithField(heap[view.currentChat], "tags", newTags))

\* loadOrCreateChat on the file system `fs`, for a view whose fields are `v`
loadOrCreateChat(fs, v) ==
    \E chats \in getChatsByAgent(fs, v.activeAgentId) :
        /\ heap' = Append(heap, IF chats # <<>> THEN chats[1]
                                ELSE createNewChat(v.activeAgentId, clock))
        /\ view' = [v EXCEPT !.currentChat = Len(heap) + 1]
        /\ tasks' = IF chats # <<>> THEN tasks
                    ELSE tasks \cup {Task(Event, "loadOrCreateChat", "saveChat", Len(heap) + 1)}

HandleAgentChange(agentId) ==
    /\ UserActs
    /\ agentId # view.activeAgentId
    /\ loadOrCreateChat(FS, [view EXCEPT !.activeAgentId = agentId, !.events = Event])
    /\ UNCHANGED <<modal, log, storeVars, streamVars>>

\* the history opens with the sessions of the active agent as they are on disk
HandleShowHistory ==
    /\ UserActs
    /\ \E chats \in getChatsByAgent(FS, view.activeAgentId) :
          /\ chats # <<>>
          /\ heap' = heap \o chats
          /\ modal' = [i \in 1..Len(chats) |-> Len(heap) + i]
    /\ view' = [view EXCEPT !.events = Event]
    /\ UNCHANGED <<tasks, log, storeVars, streamVars>>

\* an event in the history modal
ModalActs ==
    /\ view.events < view.budget
    /\ Settled
    /\ modal # <<>>

ModalSelect(k) ==
    /\ ModalActs
    /\ k \in 1..Len(modal)
    /\ view' = [view EXCEPT !.currentChat = modal[k], !.events = Event]
    /\ modal' = <<>>
    /\ UNCHANGED <<heap, tasks, log, storeVars, streamVars>>

ModalClose ==
    /\ Settled
    /\ modal # <<>>
    /\ modal' = <<>>
    /\ UNCHANGED <<view, heap, tasks, log, storeVars, streamVars>>

\* the delete callback: deleteChat, then loadOrCreateChat if the session was the
\* current one
ModalDelete(k) ==
    /\ ModalActs
    /\ k \in 1..Len(modal)
    /\ \E fs \in deleteChat(FS, heap[modal[k]].id, heap[modal[k]].agentId) :
          /\ SetFS(fs)
          /\ IF view.currentChat # 0 /\ heap[view.currentChat].id = heap[modal[k]].id
             THEN loadOrCreateChat(fs, [view EXCEPT !.events = Event])
             ELSE /\ view' = [view EXCEPT !.events = Event]
                  /\ UNCHANGED <<heap, tasks>>
    /\ modal' = splice(modal, k)
    /\ log' = Append(log, [ev |-> "deleted", turn |-> Event, id |-> heap[modal[k]].id,
                           agentId |-> heap[modal[k]].agentId])
    /\ UNCHANGED <<clock, result, created, streamVars>>

\* the rename and the tags callbacks change the listed object and save it
modalSave(h, k, chat) ==
    /\ ModalActs
    /\ k \in 1..Len(modal)
    /\ heap' = [heap EXCEPT ![modal[k]] = chat]
    /\ tasks' = tasks \cup {Task(Event, h, "saveChat", modal[k])}
    /\ view' = [view EXCEPT !.events = Event]
    /\ UNCHANGED <<modal, log, storeVars, streamVars>>

ModalRename(k, newName) ==
    modalSave("rename", k,
              WithField([heap[modal[k]] EXCEPT !.title = newName], "manualTitle", TRUE))

ModalTags(k, newTags) ==
    modalSave("tags", k, WithField(heap[modal[k]], "tags", newTags))

\* the 'Rename Recent' button of the settings: generateChatTitle(chat, true) for
\* the three most recent sessions of the active agent, one after the other
RenameRecent ==
    /\ UserActs
    /\ \E chats \in getChatsByAgent(FS, view.activeAgentId) :
          LET recentChats == SubSeq(sortChats(chats), 1, IF Len(chats) < 3 THEN Len(chats) ELSE 3)
              named == SelectSeq(recentChats, LAMBDA c : Len(c.messages) >= 2)
          IN  /\ heap' = heap \o named
              /\ tasks' = IF named = <<>> THEN tasks
                          ELSE tasks \cup
                               {[Task(Event, "renameRecent", "title", Len(heap) + 1)
                                    EXCEPT !.rest = [i \in 1..(Len(named) - 1) |->
                                                        Len(heap) + 1 + i]]}
    /\ view' = [view EXCEPT !.events = Event]
    /\ UNCHANGED <<modal, log, storeVars, streamVars>>

NextView ==
    \/ Tick
    \/ HandleSendMessage(Hi.content)
    \/ \E t \in tasks : UserMessageSaved(t)
    \/ \E t \in tasks : OnChunk(t)
    \/ \E t \in tasks : SendMessageResolves(t)
    \/ \E t \in tasks : SendMessageRejects(t)
    \/ \E t \in tasks : ReplySaved(t)
    \/ \E t \in tasks, raw \in Titles : TitleResolves(t, raw)
    \/ \E t \in tasks : TitleRejects(t)
    \/ \E t \in tasks : TitleSaved(t)
    \/ \E t \in tasks : SaveChatResolves(t)
    \/ HandleStopGeneration
    \/ \E i \in Indices : HandleEditMessage(i, Chunk)
    \/ \E i \in Indices : HandleDeleteMessage(i)
    \/ \E i \in Indices : HandleRegenerate(i)
    \/ \E i \in Indices : HandleBranch(i)
    \/ NewChat
    \/ \E newTags \in Tags : HandleAddTag(newTags)
    \/ \E agentId \in Agents : HandleAgentChange(agentId)
    \/ HandleShowHistory
    \/ \E k \in 1..MaxSessions : ModalSelect(k)
    \/ \E k \in 1..MaxSessions : ModalDelete(k)
    \/ \E k \in 1..MaxSessions : ModalRename(k, <<"N">>)
    \/ \E k \in 1..MaxSessions, newTags \in Tags : ModalTags(k, newTags)
    \/ ModalClose
    \/ RenameRecent

SpecView == InitView /\ [][NextView]_vars

-----------------------------------------------------------------------------
(* The history modal while a turn is in progress: the view's handlers for     *)
(* sending and stopping and the callbacks of the modal, with one more event.  *)

InitHistory == openView(MaxEvents + 1)

NextHistory ==
    \/ HandleSendMessage(Hi.content)
    \/ \E t \in tasks : UserMessageSaved(t)
    \/ \E t \in tasks : OnChunk(t)
    \/ \E t \in tasks : SendMessageResolves(t)
    \/ \E t \in tasks : SendMessageRejects(t)
    \/ \E t \in tasks : ReplySaved(t)
    \/ \E t \in tasks, raw \in Titles : TitleResolves(t, raw)
    \/ \E t \in tasks : TitleRejects(t)
    \/ \E t \in tasks : TitleSaved(t)
    \/ \E t \in tasks : SaveChatResolves(t)
    \/ HandleStopGeneration
    \/ HandleShowHistory
    \/ \E k \in 1..MaxSessions : ModalSelect(k)
    \/ \E k \in 1..MaxSessions : ModalDelete(k)
    \/ \E k \in 1..MaxSessions : ModalRename(k, <<"N">>)
    \/ \E k \in 1..MaxSessions, newTags \in Tags : ModalTags(k, newTags)
    \/ ModalClose

SpecHistory == InitHistory /\ [][NextHistory]_vars

-----------------------------------------------------------------------------
(* Store operations that run concurrently.  saveChat and migrateOldChats are  *)
(* taken one adapter call at a time; `tasks` holds the calls in progress and  *)
(* the calls that have resolved.                                              *)

\* the directories saveChat looks for and makes, in its order
dirsToEnsure(chat) == <<getAgentDir(chat.agentId), getTopicsDir(chat.agentId), getTopicDir(chat)>>

\* the flat layout holds one session when the plugin starts
InitRace ==
    /\ dirs = {chatsDir}
    /\ files = legacySaveChat([dirs |-> {chatsDir}, files |-> <<>>],
                              FullChat(<<"m">>, <<"a">>, 2)).files
    /\ clock = Epoch
    /\ result = [op |-> "none"]
    /\ created = <<>>
    /\ StreamIdle

\* the orchestrator calls saveChat for a session it has just made: newChat, or
\* handleBranch with one message
CallSaveChat(chat) ==
    /\ Cardinality({t \in tasks : t.op = "saveChat"}) < MaxSessions
    /\ \A t \in tasks : t.chat # chat
    /\ tasks' = tasks \cup {[n |-> Cardinality(tasks) + 1, op |-> "saveChat", at |-> "exists",
                             dir |-> 1, chat |-> chat, file |-> <<>>]}
    /\ UNCHANGED <<view, heap, modal, log, storeVars, streamVars>>

\* the constructor's migrateOldChats: adapter.list, and the loop reaches a flat file
MigrationStarts(file) ==
    /\ \A t \in tasks : t.op # "migrateOldChats"
    /\ file \in LegacyFiles(FS)
    /\ tasks' = tasks \cup {[n |-> Cardinality(tasks) + 1, op |-> "migrateOldChats",
                             at |-> "read", dir |-> 1, chat |-> Null, file |-> file]}
    /\ UNCHANGED <<view, heap, modal, log, storeVars, streamVars>>

\* adapter.read and JSON.parse of the flat file; the loop goes on to saveChat
MigrationReads(t) ==
    /\ t \in tasks /\ t.at = "read"
    /\ ReadChat(FS, t.file) # Null
    /\ tasks' = (tasks \ {t}) \cup
                {[t EXCEPT !.at = "exists",
                           !.chat = IF Prop(ReadChat(FS, t.file)[1], "agentId") = <<>>
                                    THEN WithField(ReadChat(FS, t.file)[1], "agentId", DefaultAgent)
                                    ELSE ReadChat(FS, t.file)[1]]}
    /\ UNCHANGED <<view, heap, modal, log, storeVars, streamVars>>

\* where a saveChat goes after the directory t.dir is there
afterDir(t) ==
    IF t.dir < Len(dirsToEnsure(t.chat)) THEN [t EXCEPT !.dir = @ + 1, !.at = "exists"]
    ELSE [t EXCEPT !.at = "write"]

\* adapter.exists resolves
ExistsResolves(t) ==
    /\ t \in tasks /\ t.at = "exists"
    /\ tasks' = (tasks \ {t}) \cup {IF exists(FS, dirsToEnsure(t.chat)[t.dir]) THEN afterDir(t)
                                    ELSE [t EXCEPT !.at = "mkdir"]}
    /\ UNCHANGED <<view, heap, modal, log, storeVars, streamVars>>

\* adapter.mkdir resolves
MkdirResolves(t) ==
    /\ t \in tasks /\ t.at = "mkdir"
    /\ SetFS(mkdir(FS, dirsToEnsure(t.chat)[t.dir]))
    /\ tasks' = (tasks \ {t}) \cup {afterDir(t)}
    /\ UNCHANGED <<view, heap, modal, log, clock, result, created, streamVars>>

\* adapter.write resolves: saveChat resolves, the migration goes on to remove
WriteResolves(t) ==
    /\ t \in tasks /\ t.at = "write"
    /\ SetFS(write(FS, getChatFilePath(t.chat), JSONstringify(t.chat)))
    /\ tasks' = (tasks \ {t}) \cup {[t EXCEPT !.at = IF t.op = "saveChat" THEN "resolved"
                                                    ELSE "remove"]}
    /\ UNCHANGED <<view, heap, modal, log, clock, result, created, streamVars>>

\* adapter.remove of the flat file resolves
RemoveResolves(t) ==
    /\ t \in tasks /\ t.at = "remove"
    /\ SetFS(remove(FS, t.file))
    /\ tasks' = (tasks \ {t}) \cup {[t EXCEPT !.at = "resolved"]}
    /\ UNCHANGED <<view, heap, modal, log, clock, result, created, streamVars>>

NextRace ==
    \/ Tick
    \/ \E chat \in {createNewChat(<<"a">>, clock),
                    [createNewChat(<<"a">>, clock) EXCEPT !.messages = <<Hi>>]} :
          CallSaveChat(chat)
    \/ \E file \in DOMAIN files : MigrationStarts(file)
    \/ \E t \in tasks : MigrationReads(t)
    \/ \E t \in tasks : ExistsResolves(t)
    \/ \E t \in tasks : MkdirResolves(t)
    \/ \E t \in tasks : WriteResolves(t)
    \/ \E t \in tasks : RemoveResolves(t)

SpecRace == InitRace /\ [][NextRace]_vars

-----------------------------------------------------------------------------
(* migrateOldChats one adapter call at a time, over an adapter whose calls    *)
(* may reject.                                                                *)

\* what the flat layout holds when the plugin starts: a session without agentId
\* and a session of agent 'a'
LegacyAtStart == <<AgentlessChat(<<"k", "1">>, 2), FullChat(<<"m">>, <<"a">>, 2)>>

\* the ChatStorage constructor has returned: the adapter.list of migrateOldChats
\* is pending
InitSteps ==
    /\ dirs = {chatsDir}
    /\ files = legacySaveChat(legacySaveChat([dirs |-> {chatsDir}, files |-> <<>>],
                                             LegacyAtStart[1]),
                              LegacyAtStart[2]).files
    /\ clock = Epoch
    /\ result = [op |-> "none"]
    /\ created = <<>>
    /\ StreamIdle

\* adapter.list(chatsDir) resolves: the loop will visit the flat files in the
\* adapter's order
MigrationLists ==
    /\ tasks = {}
    /\ \E fileSeq \in Orderings(LegacyFiles(FS)) :
          tasks' = {[n |-> 1, op |-> "migrateOldChats", at |-> "loop", dir |-> 1,
                     chat |-> Null, file |-> <<>>, rest |-> fileSeq]}
    /\ result' = [op |-> "migrateOldChats", before |-> StoredSessions(FS), again |-> FALSE]
    /\ UNCHANGED <<view, heap, modal, log, dirs, files, clock, created, streamVars>>

\* the for loop goes on to its next file
LoopGoesOn(t) ==
    /\ t \in tasks /\ t.op = "migrateOldChats"
    /\ t.at \in {"loop", "resolved", "caught"}
    /\ t.rest # <<>>
    /\ tasks' = (tasks \ {t}) \cup {[t EXCEPT !.at = "read", !.dir = 1, !.chat = Null,
                                              !.file = Head(t.rest), !.rest = Tail(t.rest)]}
    /\ UNCHANGED <<view, heap, modal, log, storeVars, streamVars>>

\* a try / catch around the saveChat of a file only: the loop goes on to remove
afterRejectRemoving(t) ==
    [t EXCEPT !.at = IF t.op = "saveChat" THEN "rejected"
                     ELSE IF t.at \in {"exists", "mkdir", "write"} THEN "remove"
                     ELSE "caught"]

\* where an operation goes when one of its adapter calls rejects: saveChat has no
\* try / catch and rejects, so that the catch inside the loop of migrateOldChats
\* gets what the saveChat of a file throws, and logs it
afterReject(t) == [t EXCEPT !.at = IF t.op = "saveChat" THEN "rejected" ELSE "caught"]

\* the adapter call the operation waits for rejects; a write that rejects may
\* have left the file cut off
CallRejects(t) ==
    /\ t \in tasks /\ t.at \in {"read", "exists", "mkdir", "write", "remove"}
    /\ tasks' = (tasks \ {t}) \cup {afterReject(t)}
    /\ \/ UNCHANGED <<dirs, files>>
       \/ t.at = "write" /\ SetFS(write(FS, getChatFilePath(t.chat), CorruptData))
    /\ UNCHANGED <<view, heap, modal, log, clock, result, created, streamVars>>

NextSteps ==
    \/ MigrationLists
    \/ \E t \in tasks : LoopGoesOn(t)
    \/ \E t \in tasks : MigrationReads(t)
    \/ \E t \in tasks : ExistsResolves(t)
    \/ \E t \in tasks : MkdirResolves(t)
    \/ \E t \in tasks : WriteResolves(t)
    \/ \E t \in tasks : RemoveResolves(t)
    \/ \E t \in tasks : CallRejects(t)

SpecSteps == InitSteps /\ [][NextSteps]_vars

\* the store operations that read, while the migration the constructor started is
\* under way
NextStart ==
    \/ MigrationLists
    \/ \E t \in tasks : LoopGoesOn(t)
    \/ \E t \in tasks : MigrationReads(t)
    \/ \E t \in tasks : ExistsResolves(t)
    \/ \E t \in tasks : MkdirResolves(t)
    \/ \E t \in tasks : WriteResolves(t)
    \/ \E t \in tasks : RemoveResolves(t)
    \/ LoadAllChats
    \/ \E agentId \in Agents : GetChatsByAgent(agentId)

SpecStart == InitSteps /\ [][NextStart]_vars

-----------------------------------------------------------------------------
(* Properties of ChatView *)

\* the calls of apiClient.sendMessage that handleSendMessage waits for
InFlight == {t \in tasks : t.h = "handleSendMessage" /\ t.at = "sendMessage"}

\* C21: under every interleaving of send, regenerate and stop, at most one
\* sendMessage call for a session is in flight at a time
C21_OneStreamInFlight ==
    \A t1, t2 \in InFlight : heap[t1.chat].id = heap[t2.chat].id => t1 = t2

\* the assistant messages appended for turn n, as entries of the log
Appended(n) == {i \in DOMAIN log : log[i].ev = "assistant" /\ log[i].turn = n}

\* the stream of turn n has ended by completion or by cancellation
Ended(n) == \E i \in Appended(n) : log[i].how \in {"completed", "cancelled"}

\* handleSendMessage has returned for turn n
Returned(n) == \A t \in tasks : t.n # n

\* C22: for a turn whose stream ends by completion or by cancellation, exactly one
\* assistant message is appended to the session for that turn, and that session is
\* saved after the message was appended
C22_OneAssistantMessagePerTurn ==
    \A n \in 1..MaxEvents :
        Ended(n) =>
            /\ Cardinality(Appended(n)) = 1
            /\ Returned(n) =>
                  \E i \in Appended(n), j \in DOMAIN log :
                      j > i /\ log[j].ev = "saved" /\ log[j].turn = n /\ log[j].chat = log[i].chat

\* a saveChat of the session of log entry i resolved after the entry was written
SavedAfter(i) ==
    \E j \in DOMAIN log : j > i /\ log[j].ev = "saved" /\ log[j].chat = log[i].chat

\* no handler waits for a saveChat of the Chat object c
NoSavePending(c) ==
    \A t \in tasks : t.chat = c => t.at \notin {"saveUser", "saveReply", "saveChat", "saveTitle"}

\* C23: when a stream is cancelled or fails after a delta was delivered, the text
\* accumulated so far is appended as an assistant message and saved; when no delta
\* was delivered, no assistant message with empty content is appended
C23_PartialReplyKept ==
    \A i \in DOMAIN log :
        (log[i].ev = "assistant" /\ log[i].how # "completed") =>
            /\ log[i].content # <<>>
            /\ (log[i].how = "failed" /\ log[i].partial # <<>>) =>
                  /\ log[i].content = log[i].partial
                  /\ NoSavePending(log[i].chat) => SavedAfter(i)
            /\ (log[i].how = "stopped" /\ NoSavePending(log[i].chat)) => SavedAfter(i)

\* the step is the rejection of the sendMessage call that task t waits for
RejectsIn(t) ==
    /\ t \in InFlight
    /\ \A u \in tasks' : u.n # t.n

\* C24: a failure of sendMessage adds no message to the in-memory session: it keeps
\* the messages of its last save
C24_FailureAddsNoMessage ==
    [][\A t \in tasks :
          RejectsIn(t) => heap'[view.currentChat].messages = heap[view.currentChat].messages]_vars

\* the content of a session: its messages, its title and its tags
Content(chat) == <<chat.messages, chat.title, Prop(chat, "tags")>>

\* C25: every operation that changes the messages, the title or the tags of a
\* session sets its updatedAt to the current time
C25_UpdatedAtRefreshed ==
    [][\A c \in DOMAIN heap :
          Content(heap'[c]) # Content(heap[c]) => heap'[c].updatedAt = clock]_vars

\* the session that the file of the Chat object c holds; Null if there is none
OnDisk(c) ==
    IF getChatFilePath(heap[c]) \in DOMAIN files
    THEN ReadChat(FS, getChatFilePath(heap[c]))
    ELSE Null

\* C26: whenever no handler is in progress, the session stored for the current
\* chat equals the in-memory current chat
C26_DiskEqualsMemoryAtRest ==
    (tasks = {} /\ view.currentChat # 0) => OnDisk(view.currentChat) = <<heap[view.currentChat]>>

\* the log entry of the handleBranch call that made the Chat object b
BranchEntry(b) == log[CHOOSE i \in DOMAIN log : log[i].ev = "branch" /\ log[i].branch = b]

\* C27: no operation changes the id or the agentId of a session; handleBranch makes
\* a session with an id other than the source's that holds a copy of the source's
\* messages up to the chosen index, and leaves the source as it is, in memory and
\* on disk
C27_BranchIsNewSession ==
    [][/\ \A c \in DOMAIN heap :
             heap'[c].id = heap[c].id /\ heap'[c].agentId = heap[c].agentId
       /\ \A b \in DOMAIN heap' \ DOMAIN heap :
             (\E i \in DOMAIN log' : log'[i].ev = "branch" /\ log'[i].branch = b) =>
                 LET e == log'[Len(log')]
                 IN  /\ heap'[b].id # heap[e.source].id
                     /\ heap'[b].messages = SubSeq(heap[e.source].messages, 1, e.index)
                     /\ heap'[e.source] = heap[e.source]
       /\ \A t \in tasks :
             (t.h = "handleBranch" /\ t \notin tasks') =>
                 LET file == getChatFilePath(heap[BranchEntry(t.chat).source])
                 IN  file \in DOMAIN files => (file \in DOMAIN files' /\ files'[file] = files[file])
      ]_vars

\* the session stored in file f has manualTitle set
StoredManual(f) ==
    /\ f \in DOMAIN files
    /\ ReadChat(FS, f) # Null
    /\ manualTitle(ReadChat(FS, f)[1])

\* C28: title generation never changes the title of a session whose manualTitle is
\* true: not of the Chat object it was called for, and not of the stored session
C28_ManualTitleKept ==
    [][\A t \in tasks :
          /\ (t.at = "title" /\ manualTitle(heap[t.chat])) =>
                heap'[t.chat].title = heap[t.chat].title
          /\ (t.at = "saveTitle" /\ t \notin tasks'
                /\ StoredManual(getChatFilePath(heap[t.chat]))) =>
                files'[getChatFilePath(heap[t.chat])] = files[getChatFilePath(heap[t.chat])]
      ]_vars

\* the id of the session that received the user message of turn n
SessionOfTurn(n) ==
    heap[log[CHOOSE i \in DOMAIN log : log[i].ev = "user" /\ log[i].turn = n].chat].id

\* C30: the reply of a turn is appended to, and saved in, the session that
\* received the user message of the turn, also when the current chat has been
\* switched in between
C30_ReplyGoesToItsSession ==
    \A i \in DOMAIN log :
        (\/ log[i].ev = "assistant" /\ log[i].how # "failed"
         \/ /\ log[i].ev = "saved"
            /\ \E j \in DOMAIN log : log[j].ev = "user" /\ log[j].turn = log[i].turn)
        => heap[log[i].chat].id = SessionOfTurn(log[i].turn)

\* C29: store operations on different sessions that run concurrently all succeed,
\* and every one of the sessions ends up persisted
C29_ConcurrentSavesAllPersist ==
    (\A t \in tasks : t.at = "resolved") =>
        \A t \in tasks :
            /\ getChatFilePath(t.chat) \in DOMAIN files
            /\ ReadChat(FS, getChatFilePath(t.chat)) = <<t.chat>>

\* C31: while a sendMessage call started by the view has not reached its terminal
\* state, isLoading is true and abortController is the controller of that call
C31_LoadingWhileInFlight ==
    \A t \in tasks :
        (t.h = "handleSendMessage" /\ t.at = "sendMessage" /\ ~t.aborted) =>
            (view.isLoading /\ view.abortController = t.n)

\* the message sequence of the session that the file `path` holds in `stored`
StoredMessages(stored, path) == JSONparse(stored[path]).val.messages

\* C32: a rename or a tag update from the history modal leaves the persisted
\* message sequence of the session unchanged
C32_RenameKeepsMessages ==
    [][\A t \in tasks :
          (/\ t.h \in {"rename", "tags"}
           /\ t.at = "saveChat"
           /\ t \notin tasks'
           /\ getChatFilePath(heap[t.chat]) \in DOMAIN files) =>
              StoredMessages(files', getChatFilePath(heap[t.chat])) =
              StoredMessages(files, getChatFilePath(heap[t.chat]))]_vars

\* C33: once deleteChat has removed a session, no turn, title generation or stop
\* that was in flight for it when it was deleted writes it back
C33_DeletedStaysDeleted ==
    [][\A t \in tasks : \A i \in DOMAIN log :
          (/\ log[i].ev = "deleted"
           /\ t.h \in {"handleSendMessage", "handleStopGeneration", "renameRecent"}
           /\ t.n < log[i].turn
           /\ t \notin tasks'
           /\ heap[t.chat].id = log[i].id
           /\ heap[t.chat].agentId = log[i].agentId
           /\ getChatFilePath(heap[t.chat]) \notin DOMAIN files) =>
              getChatFilePath(heap[t.chat]) \notin DOMAIN files']_vars

\* C34: deleteChat(chatId, agentId) leaves every file outside the topic directory
\* of (agentId, chatId) as it was
C34_DeleteTouchesOneTopic ==
    [][(result'.op = "deleteChat" /\ result'.agentId # <<>>) =>
          \A f \in DOMAIN files :
              ~Under(f, TopicDirOf(result'.agentId, result'.chatId)) =>
                  (f \in DOMAIN files' /\ files'[f] = files[f])]_vars

\* C35: a session that loadChat(chatId) or loadChat(chatId, agentId) returns has
\* the id chatId
C35_LoadedIdIsRequestedId ==
    (result.op = "loadChat" /\ result.val # Null) => result.val[1].id = result.chatId

\* C36: on a completed call every 'data: ' frame of the body has made its onChunk
\* call, the one after the last line end too
C36_LastLineNotLost ==
    Completed =>
        calls = Concat([i \in 1..Len(split(decodeBytes(body).text, NewLine)) |->
                          DeltaOfLine(split(decodeBytes(body).text, NewLine)[i])])

\* C37: at every step of migrateOldChats, also when adapter calls reject, each
\* legacy session that parses is stored in its flat file or in its history.json
\* of the hierarchical layout
C37_LegacySessionNeverLost ==
    result.op = "migrateOldChats" =>
        \A b \in result.before :
            InFlatLayout(b.file) =>
                \/ b.file \in DOMAIN files /\ ReadChat(FS, b.file) = <<b.chat>>
                \/ /\ getChatFilePath(WithDefaultAgent(b.chat)) \in DOMAIN files
                   /\ ReadChat(FS, getChatFilePath(WithDefaultAgent(b.chat)))
                          = <<WithDefaultAgent(b.chat)>>

\* the run is over: the write of one legacy file was rejected and left the file in
\* place, the other legacy file was migrated and removed
C37_Witness ==
    /\ result.op = "migrateOldChats"
    /\ \E t \in tasks : t.at = "caught" /\ t.rest = <<>> /\ t.file \in DOMAIN files
                          /\ t.chat # Null
                          /\ getTopicDir(t.chat) \in dirs
                          /\ getChatFilePath(t.chat) \notin DOMAIN files
    /\ \E b \in result.before :
          /\ InFlatLayout(b.file)
          /\ b.file \notin DOMAIN files
          /\ getChatFilePath(WithDefaultAgent(b.chat)) \in DOMAIN files

\* C38: a loadAllChats or getChatsByAgent call issued after the ChatStorage
\* constructor has returned includes every legacy session that parses
C38_ReadsSeeLegacySessions ==
    \A i \in DOMAIN LegacyAtStart :
        /\ result.op = "loadAllChats" =>
              \E j \in DOMAIN result.val : result.val[j] = WithDefaultAgent(LegacyAtStart[i])
        /\ (/\ result.op = "getChatsByAgent"
            /\ result.agentId = WithDefaultAgent(LegacyAtStart[i]).agentId) =>
              \E j \in DOMAIN result.val : result.val[j] = WithDefaultAgent(LegacyAtStart[i])

=============================================================================
